---- MODULE Spec2Model ----
(***************************************************************************)
(* Thermal printer control system (artemidev/prueba-electron).             *)
(*                                                                         *)
(* Spec        : one CbxPos89ePrinter driver (BasePrinter subclass).       *)
(*               Every async method is cut at its awaits: a "Begin" action *)
(*               is the synchronous prefix of the call, a "Resume" action  *)
(*               is the continuation that runs when the awaited device     *)
(*               promise settles.  Calls may overlap, as nothing in the    *)
(*               driver serialises them.                                   *)
(* SpecFactory : PrinterFactory.validateConfig / createPrinter over a      *)
(*               bounded set of configuration records.                     *)
(***************************************************************************)
EXTENDS Integers, Sequences, FiniteSets, TLC

VARIABLES
    isConnected,   \* BasePrinter._isConnected
    status,        \* BasePrinter._status
    lastJobId,     \* CbxPos89ePrinter.lastJobId
    listeners,     \* TRUE while listeners (the registry's forwarders) are attached
    events,        \* every event passed to emitEvent, in emission order
    calls,         \* every call made on the driver, with its position and outcome
    fac,           \* last PrinterFactory call: its input and its outcome
    registry,      \* PrinterRegistry: printers, configs, defaultPrinterId, stream
    rcall,         \* last call made on the registry, with the state it began in
    disc,          \* a discovery run: what the probes meet, and what is returned
    service,       \* PrinterService: initialized, and the events it has emitted
    store,         \* ConfigManager: configCache, defaultConfigId and the file
    scall          \* last call made on the service, with the state it began in

vars == <<isConnected, status, lastJobId, listeners, events, calls, fac,
          registry, rcall, disc, service, store, scall>>

driverVars == <<isConnected, status, lastJobId, listeners, events, calls>>

\* the state of the layers above the driver and the factory
serviceVars == <<service, store, scall>>

upperVars == <<registry, rcall, disc, service, store, scall>>

----------------------------------------------------------------------------
(* Bounds *)

\* number of calls made on the driver in one behaviour
MaxOps == 3

\* number of calls that may be awaiting the device at the same time
MaxInFlight == 2

----------------------------------------------------------------------------
(* types.ts *)

OFFLINE == "offline"
IDLE == "idle"
PRINTING == "printing"
ERROR == "error"
OUT_OF_PAPER == "out_of_paper"
COVER_OPEN == "cover_open"

PrinterStatus == {IDLE, PRINTING, ERROR, OFFLINE, OUT_OF_PAPER, COVER_OPEN}

PrinterConnectionType == {"usb", "serial", "network", "bluetooth"}

PaperSize == {"80mm", "78mm", "76mm", "58mm", "57mm", "44mm"}

PrinterType == {"cbx_pos_89e", "epson", "star", "generic_esc_pos"}

----------------------------------------------------------------------------
(* BasePrinter helpers *)

NoJob == 0

NoErr == "-"

Ev(type, cid, old, new, job, err) ==
    [type |-> type, cid |-> cid, old |-> old, new |-> new, job |-> job,
     err |-> err]

\* emitEvent(type, data) made by call cid; data is {jobId} or {jobId, error}
emitEvent(type, cid, job, err) == <<Ev(type, cid, "-", "-", job, err)>>

\* setStatus(newStatus) made by call cid while the status is cur:
\* the events it emits
setStatusBuggy(cur, newStatus, cid) ==
    <<Ev("status_changed", cid, cur, newStatus, NoJob, NoErr)>>

setStatus(cur, newStatus, cid) ==
    IF cur # newStatus
    THEN <<Ev("status_changed", cid, cur, newStatus, NoJob, NoErr)>>
    ELSE <<>>

\* handleError(error): emits 'error' and throws.  With no 'error' listener
\* attached, EventEmitter.emit('error', ...) itself throws first.
handleError(code) == IF listeners THEN code ELSE "ERR_UNHANDLED_ERROR"

----------------------------------------------------------------------------
(* Content model and its translation (CbxPos89ePrinter.printWithPosPrinter) *)

Text == [type |-> "text", n |-> 0]
Line(len) == [type |-> "line", n |-> len]
Feed(lines) == [type |-> "feed", n |-> lines]
Cut == [type |-> "cut", n |-> 0]
Barcode == [type |-> "barcode", n |-> 0]
QRCode == [type |-> "qrcode", n |-> 0]
Image == [type |-> "image", n |-> 0]

\* the print requests submitted in the model
Contents == { <<Text, Feed(1), Cut>>, <<Line(0 - 1)>> }

\* paper size of the driver's own config
DriverPaperSize == "80mm"

getWidthFromPaperSize(paperSize) ==
    CASE paperSize = "80mm" -> 48
      [] paperSize = "78mm" -> 46
      [] paperSize = "76mm" -> 45
      [] paperSize = "58mm" -> 32
      [] paperSize = "57mm" -> 32
      [] paperSize = "44mm" -> 24
      [] OTHER -> 48

\* item.length || width
lineLength(item) ==
    IF item.n # 0 THEN item.n ELSE getWidthFromPaperSize(DriverPaperSize)

\* String.prototype.repeat throws RangeError on a negative count
itemThrows(item) == item.type = "line" /\ lineLength(item) < 0

\* the printData entries one content item contributes (the switch has no
\* case for 'cut')
posEntries(item) ==
    CASE item.type = "text" -> <<[type |-> "text", n |-> 0]>>
      [] item.type = "line" -> <<[type |-> "text", n |-> lineLength(item)]>>
      [] item.type = "feed" ->
            [i \in 1..(IF item.n > 0 THEN item.n ELSE 0) |->
                [type |-> "text", n |-> 1]]
      [] item.type = "barcode" -> <<[type |-> "barCode", n |-> 0]>>
      [] item.type = "qrcode" -> <<[type |-> "qrCode", n |-> 0]>>
      [] item.type = "image" -> <<[type |-> "image", n |-> 0]>>
      [] OTHER -> <<>>

RECURSIVE posPrintData(_)
posPrintData(content) ==
    IF content = <<>> THEN <<>>
    ELSE posEntries(Head(content)) \o posPrintData(Tail(content))

translationThrows(content) ==
    \E i \in 1..Len(content) : itemThrows(content[i])

----------------------------------------------------------------------------
(* Call bookkeeping *)

\* a call is in flight until it has settled; a service call that connected
\* is in flight until its print() has begun
Active(rec) == rec.pc # "done" \/ rec.next # "none"

InFlightOf(base) == {c \in 1..Len(base) : Active(base[c])}

InFlight == InFlightOf(calls)

\* driver calls still to be made by service calls in flight
Reserved == Cardinality({c \in 1..Len(calls) : calls[c].next # "none"})

CanBegin(n) ==
    /\ Len(calls) + Reserved + n <= MaxOps
    /\ Cardinality(InFlight) < MaxInFlight

NewCall(op, via) ==
    [op |-> op, via |-> via, pc |-> "done", next |-> "none",
     from |-> Len(events), to |-> 0,
     sBefore |-> status, cBefore |-> isConnected, alone |-> TRUE,
     sAfter |-> "-", cAfter |-> FALSE,
     job |-> NoJob, content |-> <<>>, cut |-> FALSE, drawer |-> FALSE,
     sent |-> <<>>, io |-> 0,
     result |-> "pending", ret |-> "-", cause |-> NoErr]

\* the call list after a new call has begun on the call list base: the new
\* call overlaps the calls in flight
BegunOn(base, rec) ==
    Append([c \in 1..Len(base) |->
              IF Active(base[c])
              THEN [base[c] EXCEPT !.alone = FALSE] ELSE base[c]],
           [rec EXCEPT !.alone = (InFlightOf(base) = {})])

Begun(rec) == BegunOn(calls, rec)

\* a finished call keeps its outcome; its arguments are dropped, unless a
\* service continuation still needs them
Settled(rec) ==
    IF rec.next = "none"
    THEN [rec EXCEPT !.pc = "done", !.content = <<>>, !.sent = <<>>,
                     !.cut = FALSE, !.drawer = FALSE]
    ELSE [rec EXCEPT !.pc = "done"]

\* the call returns ret / raises code, having emitted the events up to evs and
\* leaving the driver in the state the step ends in
Returned(rec, ret, evs) ==
    [Settled(rec) EXCEPT !.result = "ok", !.ret = ret, !.to = Len(evs),
                         !.sAfter = status', !.cAfter = isConnected']

Raised(rec, code, cause, evs) ==
    [Settled([rec EXCEPT !.next = "none"]) EXCEPT
        !.result = code, !.cause = cause, !.to = Len(evs),
        !.sAfter = status', !.cAfter = isConnected']

----------------------------------------------------------------------------
(* CbxPos89ePrinter.connect *)

\* synchronous prefix: setStatus(IDLE), then isPrinterConnected() is issued
ConnectPrefix(via, next, content, cut, drawer) ==
    LET cid == Len(calls) + 1
        rec == [NewCall("connect", via) EXCEPT
                  !.pc = "probe", !.io = 1, !.next = next,
                  !.content = content, !.cut = cut, !.drawer = drawer]
    IN  /\ status' = IDLE
        /\ events' = events \o setStatus(status, IDLE, cid)
        /\ calls' = Begun(rec)
        /\ UNCHANGED <<isConnected, lastJobId, listeners, fac, upperVars>>

ConnectBegin ==
    /\ CanBegin(1)
    /\ ConnectPrefix("direct", "none", <<>>, FALSE, FALSE)

\* continuation after await isPrinterConnected(): answer is true, false or
\* "throws"
ConnectResume(c, answer) ==
    /\ calls[c].op = "connect" /\ calls[c].pc = "probe"
    /\ IF answer = "true"
       THEN LET evs == events \o emitEvent("connection_restored", c, NoJob, NoErr)
            IN  /\ isConnected' = TRUE
                /\ UNCHANGED status
                /\ events' = evs
                /\ calls' = [calls EXCEPT ![c] = Returned(@, "-", evs)]
       ELSE LET evs == events \o setStatus(status, OFFLINE, c)
                              \o emitEvent("error", c, NoJob, "CONNECTION_FAILED")
            IN  /\ isConnected' = FALSE
                /\ status' = OFFLINE
                /\ events' = evs
                /\ calls' = [calls EXCEPT ![c] =
                       Raised(@, handleError("CONNECTION_FAILED"), answer, evs)]
    /\ UNCHANGED <<lastJobId, listeners, fac, upperVars>>

----------------------------------------------------------------------------
(* CbxPos89ePrinter.disconnect *)

\* the body of disconnect(), which has no await; cleared = FALSE when
\* thermalPrinter.clear() throws
disconnectStatus(cleared) == IF cleared THEN OFFLINE ELSE status

disconnectConnected(cleared) == IF cleared THEN FALSE ELSE isConnected

disconnectEvents(cleared, cid) ==
    IF cleared
    THEN setStatus(status, OFFLINE, cid)
           \o emitEvent("connection_lost", cid, NoJob, NoErr)
    ELSE emitEvent("error", cid, NoJob, "CONNECTION_FAILED")

Disconnect(cleared) ==
    /\ CanBegin(1)
    /\ LET cid == Len(calls) + 1
           evs == events \o disconnectEvents(cleared, cid)
           rec == NewCall("disconnect", "direct")
       IN  /\ isConnected' = disconnectConnected(cleared)
           /\ status' = disconnectStatus(cleared)
           /\ events' = evs
           /\ calls' = Begun(IF cleared
                             THEN Returned(rec, "-", evs)
                             ELSE Raised(rec, handleError("CONNECTION_FAILED"),
                                         "throws", evs))
    /\ UNCHANGED <<lastJobId, listeners, fac, upperVars>>

----------------------------------------------------------------------------
(* CbxPos89ePrinter.getStatus *)

GetStatusBegin ==
    /\ CanBegin(1)
    /\ UNCHANGED <<isConnected, status, lastJobId, listeners, events, fac,
                   upperVars>>
    /\ LET rec == NewCall("getStatus", "direct")
       IN  calls' = Begun(IF ~isConnected
                          THEN Returned(rec, OFFLINE, events)
                          ELSE [rec EXCEPT !.pc = "probe", !.io = 1])

GetStatusResume(c, answer) ==
    /\ calls[c].op = "getStatus" /\ calls[c].pc = "probe"
    /\ UNCHANGED <<isConnected, lastJobId, listeners, fac, upperVars>>
    /\ LET new == CASE answer = "true" -> status
                    [] answer = "false" -> OFFLINE
                    [] OTHER -> ERROR
           ret == IF answer = "true"
                  THEN (IF status = OFFLINE THEN IDLE ELSE status)
                  ELSE new
           evs == events \o setStatus(status, new, c)
       IN  /\ status' = new
           /\ events' = evs
           /\ calls' = [calls EXCEPT ![c] = Returned(@, ret, evs)]

----------------------------------------------------------------------------
(* CbxPos89ePrinter.print *)

\* what printWithPosPrinter has done when print() reaches its first await:
\* PosPrinter.print is issued unless building printData threw
Translated(rec, content) ==
    IF translationThrows(content)
    THEN [rec EXCEPT !.pc = "translated"]
    ELSE [rec EXCEPT !.pc = "posPrint", !.io = 1,
                     !.sent = posPrintData(content)]

\* a print() that starts the job without looking at the connection
PrintPrefixUnchecked(via, base, content, cut, drawer) ==
    LET cid == Len(calls) + 1
        job == lastJobId + 1
        rec == [NewCall("print", via) EXCEPT
                  !.job = job, !.content = content, !.cut = cut,
                  !.drawer = drawer]
    IN  /\ lastJobId' = job
        /\ UNCHANGED <<isConnected, listeners, fac, upperVars>>
        /\ status' = PRINTING
        /\ events' = events \o setStatus(status, PRINTING, cid)
                            \o emitEvent("job_started", cid, job, NoErr)
        /\ calls' = BegunOn(base, Translated(rec, content))

\* synchronous prefix of print(content, config); cut is config.paperCut !==
\* false, drawer is config.openCashDrawer.  The job id
\* `cbx_${id}_${++lastJobId}_${Date.now()}` is identified by its sequence
\* number.
PrintPrefix(via, base, content, cut, drawer) ==
    LET cid == Len(calls) + 1
        job == lastJobId + 1
        rec == [NewCall("print", via) EXCEPT
                  !.job = job, !.content = content, !.cut = cut,
                  !.drawer = drawer]
    IN  /\ lastJobId' = job
        /\ UNCHANGED <<isConnected, listeners, fac, upperVars>>
        /\ IF ~isConnected
           THEN /\ UNCHANGED <<status, events>>
                /\ calls' = BegunOn(base,
                                   Raised(rec, "PRINTER_OFFLINE", NoErr, events))
           ELSE /\ status' = PRINTING
                /\ events' = events \o setStatus(status, PRINTING, cid)
                                    \o emitEvent("job_started", cid, job, NoErr)
                /\ calls' = BegunOn(base, Translated(rec, content))

PrintBegin(content, cut, drawer) ==
    /\ CanBegin(1)
    /\ PrintPrefix("direct", calls, content, cut, drawer)

\* a catch block that resets the driver to Idle after reporting the failure
PrintFailedReset(c, cause) ==
    LET evs == events \o setStatus(status, IDLE, c)
                      \o emitEvent("job_failed", c, calls[c].job, cause)
    IN  /\ status' = IDLE
        /\ events' = evs
        /\ calls' = [calls EXCEPT ![c] = Raised(@, "COMMAND_ERROR", cause, evs)]

\* the catch block of print()
PrintFailed(c, cause) ==
    LET evs == events \o setStatus(status, ERROR, c)
                      \o emitEvent("job_failed", c, calls[c].job, cause)
    IN  /\ status' = ERROR
        /\ events' = evs
        /\ calls' = [calls EXCEPT ![c] = Raised(@, "COMMAND_ERROR", cause, evs)]

\* print() that emits job_completed without returning the status to Idle
PrintCompletedNoIdle(c) ==
    LET evs == events \o emitEvent("job_completed", c, calls[c].job, NoErr)
    IN  /\ UNCHANGED status
        /\ events' = evs
        /\ calls' = [calls EXCEPT ![c] = Returned(@, calls[c].job, evs)]

\* the end of the try block of print()
PrintCompleted(c) ==
    LET evs == events \o setStatus(status, IDLE, c)
                      \o emitEvent("job_completed", c, calls[c].job, NoErr)
    IN  /\ status' = IDLE
        /\ events' = evs
        /\ calls' = [calls EXCEPT ![c] = Returned(@, calls[c].job, evs)]

\* cutPaper() / openCashDrawer(): the command is buffered and execute() issued
PrintAwait(c, pc) ==
    /\ calls' = [calls EXCEPT ![c].pc = pc, ![c].io = @ + 1]
    /\ UNCHANGED <<status, events>>

\* a print() that goes from the content to the cash drawer without cutting
AfterContentUncut(c) ==
    IF calls[c].drawer THEN PrintAwait(c, "drawer") ELSE PrintCompleted(c)

\* what print() does once the content has been sent
AfterContent(c) ==
    IF calls[c].cut THEN PrintAwait(c, "cut")
    ELSE IF calls[c].drawer THEN PrintAwait(c, "drawer")
    ELSE PrintCompleted(c)

AfterCut(c) ==
    IF calls[c].drawer THEN PrintAwait(c, "drawer") ELSE PrintCompleted(c)

\* continuation of print() after one of its awaits; ok = FALSE when the
\* awaited promise rejected
PrintResume(c, ok) ==
    /\ calls[c].op = "print"
    /\ calls[c].pc \in {"translated", "posPrint", "cut", "drawer"}
    /\ UNCHANGED <<isConnected, lastJobId, listeners, fac, upperVars>>
    /\ CASE calls[c].pc = "translated" ->
              /\ ~ok
              /\ PrintFailed(c, "RangeError")
         [] calls[c].pc = "posPrint" ->
              IF ok THEN AfterContent(c) ELSE PrintFailed(c, "posPrint")
         [] calls[c].pc = "cut" ->
              IF ok THEN AfterCut(c) ELSE PrintFailed(c, "cutPaper")
         [] calls[c].pc = "drawer" ->
              IF ok THEN PrintCompleted(c) ELSE PrintFailed(c, "openCashDrawer")

----------------------------------------------------------------------------
(* BasePrinter.dispose *)

DisposeBegin(cleared) ==
    /\ CanBegin(1)
    /\ LET cid == Len(calls) + 1
           rec == NewCall("dispose", "direct")
       IN  IF isConnected
           THEN LET evs == events \o disconnectEvents(cleared, cid)
                IN  /\ isConnected' = disconnectConnected(cleared)
                    /\ status' = disconnectStatus(cleared)
                    /\ events' = evs
                    /\ calls' = Begun([rec EXCEPT
                          !.pc = IF cleared THEN "disconnected" ELSE "rejected"])
                    /\ UNCHANGED listeners
           ELSE /\ cleared
                /\ listeners' = FALSE
                /\ UNCHANGED <<isConnected, status, events>>
                /\ calls' = Begun(Returned(rec, "-", events))
    /\ UNCHANGED <<lastJobId, fac, upperVars>>

\* continuation after await this.disconnect()
DisposeResume(c) ==
    /\ calls[c].op = "dispose"
    /\ calls[c].pc \in {"disconnected", "rejected"}
    /\ UNCHANGED <<isConnected, status, lastJobId, events, fac, upperVars>>
    /\ IF calls[c].pc = "disconnected"
       THEN /\ listeners' = FALSE
            /\ calls' = [calls EXCEPT ![c] = Returned(@, "-", events)]
       ELSE /\ calls' = [calls EXCEPT ![c] =
                   Raised(@, handleError("CONNECTION_FAILED"), "throws", events)]
            /\ UNCHANGED listeners

----------------------------------------------------------------------------
(* PrinterService.print on this driver *)

\* if (!printer.isConnected()) await printer.connect();
\* return await printer.print(content, config)
ServicePrintBegin(content, cut, drawer) ==
    IF isConnected
    THEN /\ CanBegin(1)
         /\ PrintPrefix("service", calls, content, cut, drawer)
    ELSE /\ CanBegin(2)
         /\ ConnectPrefix("service", "print", content, cut, drawer)

\* continuation after await printer.connect() returned
ServicePrintResume(c) ==
    /\ calls[c].op = "connect" /\ calls[c].pc = "done"
    /\ calls[c].next = "print" /\ calls[c].result = "ok"
    /\ PrintPrefix("service",
                   [calls EXCEPT ![c] = Settled([@ EXCEPT !.next = "none"])],
                   calls[c].content, calls[c].cut, calls[c].drawer)

----------------------------------------------------------------------------
(* Driver specification *)

NoFac == [op |-> "none"]

\* null
Null == "null"

\* new PrinterRegistry(factory): empty maps, no default printer.  stream is
\* every event emitted on the registry, emitted is every event emitted by a
\* driver while it was registered, objs counts the driver objects constructed.
EmptyRegistry ==
    [printers |-> <<>>, configs |-> <<>>, defaultPrinterId |-> Null,
     stream |-> <<>>, emitted |-> <<>>, objs |-> 0]

NoArg == [none |-> TRUE]

NoRegistryCall ==
    [n |-> 0, op |-> "none", id |-> Null, arg |-> NoArg, result |-> "-",
     cause |-> NoErr, before |-> EmptyRegistry, attempted |-> {}]

NoDiscovery == [op |-> "none"]

RegistryInit ==
    /\ registry = EmptyRegistry
    /\ rcall = NoRegistryCall

\* new ConfigManager(): an empty cache and no default; file is printers.json
NoFile == [exists |-> FALSE, configurations |-> <<>>, defaultConfigId |-> Null]

EmptyStore == [configCache |-> <<>>, defaultConfigId |-> Null, file |-> NoFile]

\* new PrinterService(): not initialized; setupEventForwarding() has attached
\* one set of forwarders to the registry.  onError is whether the
\* application listens to 'error' on the service, stream is every event
\* emitted on the service.
NewService ==
    [initialized |-> FALSE, forwarding |-> 1, onError |-> FALSE,
     stream |-> <<>>]

NoServiceCall ==
    [n |-> 0, op |-> "none", arg |-> NoArg, result |-> "-", cause |-> NoErr,
     value |-> NoArg, touched |-> {}, steps |-> <<>>, service |-> NewService,
     registry |-> EmptyRegistry, store |-> EmptyStore]

ServiceInit ==
    /\ service = NewService
    /\ store = EmptyStore
    /\ scall = NoServiceCall

UpperInit ==
    /\ RegistryInit
    /\ disc = NoDiscovery
    /\ ServiceInit

Init ==
    /\ isConnected = FALSE
    /\ status = OFFLINE
    /\ lastJobId = 0
    /\ listeners \in BOOLEAN
    /\ events = <<>>
    /\ calls = <<>>
    /\ fac = NoFac
    /\ UpperInit

Next ==
    \/ ConnectBegin
    \/ \E c \in 1..Len(calls), answer \in {"true", "false", "throws"} :
          ConnectResume(c, answer)
    \/ \E cleared \in BOOLEAN : Disconnect(cleared)
    \/ GetStatusBegin
    \/ \E c \in 1..Len(calls), answer \in {"true", "false", "throws"} :
          GetStatusResume(c, answer)
    \/ \E content \in Contents, cut \in BOOLEAN, drawer \in BOOLEAN :
          PrintBegin(content, cut, drawer)
    \/ \E c \in 1..Len(calls), ok \in BOOLEAN : PrintResume(c, ok)
    \/ \E cleared \in BOOLEAN : DisposeBegin(cleared)
    \/ \E c \in 1..Len(calls) : DisposeResume(c)
    \/ \E content \in Contents, cut \in BOOLEAN, drawer \in BOOLEAN :
          ServicePrintBegin(content, cut, drawer)
    \/ \E c \in 1..Len(calls) : ServicePrintResume(c)

Spec == Init /\ [][Next]_vars

----------------------------------------------------------------------------
(* Properties of the driver *)

IsSettled(c) == calls[c].pc = "done"

\* the events call c emitted, provided no other call overlapped it
EventsOf(c) == SubSeq(events, calls[c].from + 1, calls[c].to)

StatusChanged(c, old, new) == Ev("status_changed", c, old, new, NoJob, NoErr)

PrintCalls == {c \in 1..Len(calls) : calls[c].op = "print"}

\* a print() on a connected driver that has run to its end with no other call
\* overlapping it
SettledPrints ==
    {c \in PrintCalls : IsSettled(c) /\ calls[c].cBefore /\ calls[c].alone}

\* C1: a print() on a connected, Idle driver during which neither the
\* translation nor the device fails, and which no other call overlaps, returns
\* its job id having emitted exactly status_changed(Idle->Printing),
\* job_started(job), status_changed(Printing->Idle), job_completed(job), in
\* that order, and leaves the driver Idle.
C1_SuccessfulPrint ==
    \A c \in SettledPrints :
        (calls[c].sBefore = IDLE /\ calls[c].cause = NoErr) =>
            /\ calls[c].result = "ok"
            /\ calls[c].ret = calls[c].job
            /\ calls[c].sAfter = IDLE
            /\ EventsOf(c) = << StatusChanged(c, IDLE, PRINTING),
                                Ev("job_started", c, "-", "-", calls[c].job, NoErr),
                                StatusChanged(c, PRINTING, IDLE),
                                Ev("job_completed", c, "-", "-", calls[c].job, NoErr) >>

C1_Witness ==
    \E c \in SettledPrints :
        /\ calls[c].sBefore = IDLE /\ calls[c].cause = NoErr
        /\ calls[c].result = "ok"

\* C2: a print() on a connected driver in which the translation, the device
\* or a post-print side effect fails, and which no other call overlaps, raises
\* COMMAND_ERROR wrapping the cause, having emitted job_started(job) and then
\* exactly one job_failed(job, error text) and no job_completed; it leaves the
\* driver in Error and still connected.
C2_FailedPrint ==
    \A c \in SettledPrints :
        calls[c].cause # NoErr =>
            /\ calls[c].result = "COMMAND_ERROR"
            /\ calls[c].sAfter = ERROR
            /\ calls[c].cAfter = TRUE
            /\ EventsOf(c) =
                 setStatus(calls[c].sBefore, PRINTING, c)
                   \o << Ev("job_started", c, "-", "-", calls[c].job, NoErr),
                         StatusChanged(c, PRINTING, ERROR),
                         Ev("job_failed", c, "-", "-", calls[c].job,
                            calls[c].cause) >>

C2_Witness ==
    \E c, d \in SettledPrints :
        /\ calls[c].cause = "cutPaper"
        /\ calls[d].cause = "RangeError"

\* C3: a print() on a driver that is not connected raises PRINTER_OFFLINE at
\* once: it issues no device I/O, emits no event, and leaves status and
\* connectivity as they were.
C3_PrintOffline ==
    \A c \in PrintCalls :
        ~calls[c].cBefore =>
            /\ IsSettled(c)
            /\ calls[c].result = "PRINTER_OFFLINE"
            /\ calls[c].io = 0
            /\ calls[c].to = calls[c].from
            /\ calls[c].sAfter = calls[c].sBefore
            /\ calls[c].cAfter = calls[c].cBefore

C3_Witness ==
    \E c \in PrintCalls :
        /\ ~calls[c].cBefore
        /\ calls[c].result = "PRINTER_OFFLINE"
        /\ calls[c].sBefore # OFFLINE

\* the status_changed events, in emission order
StatusEvents == SelectSeq(events, LAMBDA e : e.type = "status_changed")

\* the (oldStatus, newStatus) pairs of the documented state machine, each with
\* the calls that may cause it
Documented(e) ==
    LET by == calls[e.cid]
    IN  \/ /\ e.old = OFFLINE /\ e.new = IDLE
           /\ by.op = "connect" /\ by.result \in {"pending", "ok"}
        \/ e.old = IDLE /\ e.new = PRINTING /\ by.op = "print"
        \/ e.old = PRINTING /\ e.new = IDLE /\ by.op = "print"
        \/ e.new = ERROR
        \/ e.new = OFFLINE

\* C4: every status_changed event carries a pair of the documented state
\* machine: Offline->Idle by a connect() that succeeded, Idle->Printing and
\* Printing->Idle by print(), anything->Error, anything->Offline.
C4_StateMachine ==
    \A i \in 1..Len(StatusEvents) : Documented(StatusEvents[i])

ConnectCalls == {c \in 1..Len(calls) : calls[c].op = "connect"}

\* C5: connect() on a connected driver returns at once: no device I/O, no
\* event, status and connectivity as before.
C5_ConnectIdempotent ==
    \A c \in ConnectCalls :
        calls[c].cBefore =>
            /\ IsSettled(c)
            /\ calls[c].io = 0
            /\ calls[c].to = calls[c].from
            /\ calls[c].sAfter = calls[c].sBefore
            /\ calls[c].cAfter = calls[c].cBefore

\* C6: disconnect() on a driver that is not connected and Offline is a no-op:
\* no device I/O, no status change, no connection_lost event.
C6_DisconnectIdempotent ==
    \A c \in 1..Len(calls) :
        (calls[c].op = "disconnect" /\ ~calls[c].cBefore
           /\ calls[c].sBefore = OFFLINE) =>
            /\ calls[c].io = 0
            /\ calls[c].sAfter = OFFLINE
            /\ \A i \in 1..Len(events) :
                  events[i].cid = c =>
                     events[i].type \notin {"connection_lost", "status_changed"}

\* C7: the status_changed events chain: the first leaves Offline, each one
\* leaves the status the previous one entered, none is a self-transition, and
\* the last one entered the current status - so every change of status was
\* emitted exactly once and nothing else was.
C7_StatusChain ==
    LET sc == StatusEvents
    IN  /\ \A i \in 1..Len(sc) :
              /\ sc[i].old # sc[i].new
              /\ sc[i].old = IF i = 1 THEN OFFLINE ELSE sc[i - 1].new
        /\ status = IF sc = <<>> THEN OFFLINE ELSE sc[Len(sc)].new

\* two changes have been emitted and a later setStatus(OFFLINE) found the
\* driver Offline already
C7_Witness ==
    /\ Len(StatusEvents) >= 2
    /\ \E c \in 1..Len(calls) :
          /\ calls[c].op = "disconnect" /\ calls[c].result = "ok"
          /\ calls[c].sBefore = OFFLINE /\ calls[c].from >= 2

\* C8: once a failed print() has put the driver in Error, no print() moves the
\* status out of Error: the status_changed event that follows the Error set by
\* a failed print() is never emitted by a print() call.
C8_ErrorIsSticky ==
    \A i \in 2..Len(StatusEvents) :
        LET prev == StatusEvents[i - 1]
            e == StatusEvents[i]
        IN  (prev.new = ERROR /\ calls[prev.cid].op = "print") =>
                calls[e.cid].op # "print"

----------------------------------------------------------------------------
(* PrinterFactory *)

\* a connection string is the sequence of its characters
Digits == {"0", "1", "2", "3", "4", "5", "6", "7", "8", "9"}

DigitVal(ch) ==
    CASE ch = "0" -> 0 [] ch = "1" -> 1 [] ch = "2" -> 2 [] ch = "3" -> 3
      [] ch = "4" -> 4 [] ch = "5" -> 5 [] ch = "6" -> 6 [] ch = "7" -> 7
      [] ch = "8" -> 8 [] ch = "9" -> 9

AllDigits(str) == \A i \in 1..Len(str) : str[i] \in Digits

StartsWith(str, prefix) ==
    /\ Len(str) >= Len(prefix)
    /\ SubSeq(str, 1, Len(prefix)) = prefix

DropFirst(str, n) == SubSeq(str, n + 1, Len(str))

\* an optional number is <<>> when absent (undefined, NaN) and <<n>> otherwise
Undefined == <<>>

Num(n) == <<n>>

Val(x) == x[1]

\* JavaScript truthiness of an optional number
NumTruthy(x) == x # Undefined /\ Val(x) # 0

\* validateUSBConnection
validateUSBConnection(connectionString) ==
    IF Len(connectionString) = 0 THEN FALSE
    ELSE Len(connectionString) > 0 /\ Len(connectionString) < 256

\* /^COM\d+$/i
windowsPattern(str) ==
    /\ Len(str) >= 4
    /\ str[1] \in {"C", "c"} /\ str[2] \in {"O", "o"} /\ str[3] \in {"M", "m"}
    /\ AllDigits(DropFirst(str, 3))

\* /^\/dev\/(tty(USB|ACM|S)\d+|cu\..+)$/
unixPattern(str) ==
    /\ StartsWith(str, <<"/", "d", "e", "v", "/">>)
    /\ LET rest == DropFirst(str, 5)
           tty(kind) == /\ StartsWith(rest, <<"t", "t", "y">> \o kind)
                        /\ Len(rest) > 3 + Len(kind)
                        /\ AllDigits(DropFirst(rest, 3 + Len(kind)))
       IN  \/ tty(<<"U", "S", "B">>)
           \/ tty(<<"A", "C", "M">>)
           \/ tty(<<"S">>)
           \/ /\ StartsWith(rest, <<"c", "u", ".">>)
              /\ Len(rest) > 3
              /\ \A i \in 4..Len(rest) : rest[i] # "\n"

\* validateSerialConnection
validateSerialConnection(connectionString) ==
    IF Len(connectionString) = 0 THEN FALSE
    ELSE windowsPattern(connectionString) \/ unixPattern(connectionString)

\* positions of ':' in the string
Colons(str) == {i \in 1..Len(str) : str[i] = ":"}

RECURSIVE DigitsValue(_, _)
DigitsValue(str, acc) ==
    IF str = <<>> \/ Head(str) \notin Digits THEN acc
    ELSE DigitsValue(Tail(str), acc * 10 + DigitVal(Head(str)))

RECURSIVE SkipSpaces(_)
SkipSpaces(str) ==
    IF str # <<>> /\ Head(str) = " " THEN SkipSpaces(Tail(str)) ELSE str

NaN == <<>>

\* parseInt(str, 10): leading blanks, an optional sign, then the longest
\* prefix of digits; NaN when there is no digit
parseInt(str) ==
    LET t == SkipSpaces(str)
        signed == t # <<>> /\ Head(t) \in {"+", "-"}
        body == IF signed THEN Tail(t) ELSE t
    IN  IF body = <<>> \/ Head(body) \notin Digits THEN NaN
        ELSE IF signed /\ Head(t) = "-" THEN Num(0 - DigitsValue(body, 0))
        ELSE Num(DigitsValue(body, 0))

\* validateNetworkConnection
validateNetworkConnection(connectionString) ==
    IF Len(connectionString) = 0 THEN FALSE
    ELSE IF Cardinality(Colons(connectionString)) # 1 THEN FALSE
    ELSE LET at == CHOOSE i \in Colons(connectionString) : TRUE
             host == SubSeq(connectionString, 1, at - 1)
             port == parseInt(DropFirst(connectionString, at))
         IN  IF Len(host) = 0 THEN FALSE
             ELSE IF port = NaN THEN FALSE
             ELSE ~(Val(port) < 1 \/ Val(port) > 65535)

validateBasicConfigNoRange(config) ==
    /\ ~(config.id = "" \/ config.name = "" \/ config.type = ""
           \/ config.connectionString = <<>>)
    /\ config.type \in PrinterType
    /\ config.connectionType \in PrinterConnectionType
    /\ config.paperSize \in PaperSize

\* validateBasicConfig
validateBasicConfig(config) ==
    IF config.id = "" \/ config.name = "" \/ config.type = ""
         \/ config.connectionString = <<>>
    THEN FALSE
    ELSE IF config.type \notin PrinterType THEN FALSE
    ELSE IF config.connectionType \notin PrinterConnectionType THEN FALSE
    ELSE IF config.paperSize \notin PaperSize THEN FALSE
    ELSE IF NumTruthy(config.timeout)
              /\ (Val(config.timeout) < 0 \/ Val(config.timeout) > 60000)
    THEN FALSE
    ELSE IF NumTruthy(config.retryAttempts)
              /\ (Val(config.retryAttempts) < 0
                    \/ Val(config.retryAttempts) > 10)
    THEN FALSE
    ELSE TRUE

\* validateCbxPos89eConfig
validateCbxPos89eConfig(config) ==
    IF config.paperSize \notin {"80mm", "58mm", "57mm"} THEN FALSE
    ELSE CASE config.connectionType = "usb" ->
                validateUSBConnection(config.connectionString)
           [] config.connectionType = "serial" ->
                validateSerialConnection(config.connectionString)
           [] config.connectionType = "network" ->
                validateNetworkConnection(config.connectionString)
           [] OTHER -> FALSE

\* validateGenericEscPosConfig
validateGenericEscPosConfig(config) == TRUE

\* the factory's maps after registerDefaultPrinters(): the types that have a
\* constructor, and the types that have a validator
printerRegistry == {"cbx_pos_89e", "generic_esc_pos"}

configValidators == {"cbx_pos_89e", "generic_esc_pos"}

validator(type, config) ==
    IF type = "cbx_pos_89e" THEN validateCbxPos89eConfig(config)
    ELSE validateGenericEscPosConfig(config)

\* validateConfig
validateConfig(config) ==
    IF ~validateBasicConfig(config) THEN FALSE
    ELSE IF config.type \in configValidators /\ ~validator(config.type, config)
    THEN FALSE
    ELSE TRUE

\* createPrinter: what it returns or raises, and whether a driver
\* constructor ran; ctorOk = FALSE when the driver constructor throws
createPrinter(config, ctorOk) ==
    IF ~validateConfig(config)
    THEN [result |-> "INVALID_CONFIG", constructed |-> FALSE, cause |-> NoErr]
    ELSE IF config.type \notin printerRegistry
    THEN [result |-> "UNSUPPORTED_OPERATION", constructed |-> FALSE,
          cause |-> NoErr]
    ELSE IF ctorOk
    THEN [result |-> "driver", constructed |-> TRUE, cause |-> NoErr]
    ELSE [result |-> "INVALID_CONFIG", constructed |-> TRUE,
          cause |-> "constructor"]

\* the connection strings tried
ConnStrings ==
    { <<>>,
      <<"C", "B", "X">>,
      <<"C", "O", "M", "1">>,
      <<"/", "d", "e", "v", "/", "t", "t", "y", "S", "0">>,
      <<"h", ":", "9", "1", "0", "0">>,
      <<"h", ":", "0">>,
      <<"h", ":", "1", ":", "2">> }

Timeouts == {Undefined, Num(0 - 1), Num(0), Num(60000), Num(60001)}

RetryCounts == {Undefined, Num(0 - 1), Num(0), Num(10), Num(11)}

\* the configuration records tried: "" is a missing field; "invalid_type",
\* "parallel" and "A4" are values outside the enumerations
Configs ==
    [id : {"", "p1"},
     name : {"", "Main"},
     type : PrinterType \cup {"", "invalid_type"},
     connectionType : PrinterConnectionType \cup {"parallel"},
     connectionString : ConnStrings,
     paperSize : PaperSize \cup {"A4"},
     timeout : Timeouts,
     retryAttempts : RetryCounts]

\* the factory is stateless: a behaviour fixes one configuration record and
\* applies validateConfig and createPrinter to it
InitFactory ==
    /\ isConnected = FALSE
    /\ status = OFFLINE
    /\ lastJobId = 0
    /\ listeners = FALSE
    /\ events = <<>>
    /\ calls = <<>>
    /\ \E config \in Configs :
          fac = [op |-> "none", config |-> config, valid |-> FALSE,
                 result |-> "-", constructed |-> FALSE, cause |-> NoErr]
    /\ UpperInit

FactoryValidate ==
    /\ fac' = [op |-> "validateConfig", config |-> fac.config,
               valid |-> validateConfig(fac.config),
               result |-> "-", constructed |-> FALSE, cause |-> NoErr]
    /\ UNCHANGED <<driverVars, upperVars>>

FactoryCreate(ctorOk) ==
    /\ LET out == createPrinter(fac.config, ctorOk)
       IN  fac' = [op |-> "createPrinter", config |-> fac.config,
                   valid |-> validateConfig(fac.config),
                   result |-> out.result, constructed |-> out.constructed,
                   cause |-> out.cause]
    /\ UNCHANGED <<driverVars, upperVars>>

NextFactory ==
    \/ FactoryValidate
    \/ \E ctorOk \in BOOLEAN : FactoryCreate(ctorOk)

SpecFactory == InitFactory /\ [][NextFactory]_vars

----------------------------------------------------------------------------
(* Properties of the factory *)

InRange(x, lo, hi) == x = Undefined \/ (Val(x) >= lo /\ Val(x) <= hi)

\* the defects of a configuration record: a required field missing, a type,
\* transport or paper size outside its enumeration, a timeout outside
\* [0, 60000], a retry count outside [0, 10]
Defective(config) ==
    \/ config.id = "" \/ config.name = "" \/ config.type = ""
    \/ config.connectionString = <<>>
    \/ config.type \notin PrinterType
    \/ config.connectionType \notin PrinterConnectionType
    \/ config.paperSize \notin PaperSize
    \/ ~InRange(config.timeout, 0, 60000)
    \/ ~InRange(config.retryAttempts, 0, 10)

\* C9: for every config that validateConfig accepts, createPrinter returns a
\* driver (an exception thrown by the driver's own constructor set aside).
C9_AcceptedConfigCreates ==
    (fac.op = "createPrinter" /\ fac.valid /\ fac.cause # "constructor") =>
        fac.result = "driver"

\* C10: for every defective config, validateConfig returns false, and
\* createPrinter raises INVALID_CONFIG without running a driver constructor.
C10_DefectiveRejected ==
    (fac.op # "none" /\ Defective(fac.config)) =>
        /\ fac.valid = FALSE
        /\ fac.op = "createPrinter" =>
              (fac.result = "INVALID_CONFIG" /\ ~fac.constructed)

\* createPrinter has rejected a config whose only defect is its timeout
C10_Witness ==
    /\ fac.op = "createPrinter"
    /\ fac.result = "INVALID_CONFIG"
    /\ fac.config.timeout = Num(60001)
    /\ Defective(fac.config)
    /\ ~Defective([fac.config EXCEPT !.timeout = Undefined])

----------------------------------------------------------------------------
(* PrinterRegistry                                                         *)
(*                                                                         *)
(* SpecRegistry : one PrinterRegistry and the drivers it owns.  Registry   *)
(*                calls and calls on registered drivers are made one after *)
(*                another: a call is one step, and the outcome of each     *)
(*                device operation it awaits is an input of the step.      *)

\* a Map is the sequence of its entries in insertion order
MapHas(m, k) == \E i \in 1..Len(m) : m[i].key = k

MapIndex(m, k) == CHOOSE i \in 1..Len(m) : m[i].key = k

MapGet(m, k) == m[MapIndex(m, k)].value

\* set() on a key that is present keeps the position of its entry
MapSet(m, k, v) ==
    IF MapHas(m, k)
    THEN [m EXCEPT ![MapIndex(m, k)] = [key |-> k, value |-> v]]
    ELSE Append(m, [key |-> k, value |-> v])

MapDeleteKeepsEntry(m, k) == m

MapDelete(m, k) ==
    LET keep(e) == e.key # k IN SelectSeq(m, keep)

MapKeys(m) == [i \in 1..Len(m) |-> m[i].key]

MapKeySet(m) == {m[i].key : i \in 1..Len(m)}

MapValues(m) == [i \in 1..Len(m) |-> m[i].value]

\* a driver object: new PrinterClass(config.id, config).  obj is the identity
\* of the object, since the number of the registry call that registered its
\* id, listeners the number of times the registry's forwarders are attached.
NewDriver(id, obj, since) ==
    [id |-> id, obj |-> obj, since |-> since, isConnected |-> FALSE,
     status |-> OFFLINE, lastJobId |-> 0, listeners |-> 0]

\* the events of a driver, as the payload its listeners receive
Payload(d, evs) ==
    [i \in 1..Len(evs) |->
        [type |-> evs[i].type, printerId |-> d.id, obj |-> d.obj,
         data |-> evs[i]]]

\* the outcome of a call on a driver: the driver afterwards, the events it
\* emitted, and whether the call raised
Outcome(d, drv, evs, raised) ==
    [drv |-> drv, evs |-> Payload(d, evs), raised |-> raised]

\* CbxPos89ePrinter.connect() on driver d; answer is what
\* isPrinterConnected() resolves to, or "throws"
connectOn(d, answer, cid) ==
    IF answer = "true"
    THEN Outcome(d, [d EXCEPT !.isConnected = TRUE, !.status = IDLE],
                 setStatus(d.status, IDLE, cid)
                   \o emitEvent("connection_restored", cid, NoJob, NoErr),
                 FALSE)
    ELSE Outcome(d, [d EXCEPT !.isConnected = FALSE, !.status = OFFLINE],
                 setStatus(d.status, IDLE, cid)
                   \o setStatus(IDLE, OFFLINE, cid)
                   \o emitEvent("error", cid, NoJob, "CONNECTION_FAILED"),
                 TRUE)

\* CbxPos89ePrinter.disconnect() on driver d; cleared = FALSE when
\* thermalPrinter.clear() throws
disconnectOn(d, cleared, cid) ==
    IF cleared
    THEN Outcome(d, [d EXCEPT !.isConnected = FALSE, !.status = OFFLINE],
                 setStatus(d.status, OFFLINE, cid)
                   \o emitEvent("connection_lost", cid, NoJob, NoErr),
                 FALSE)
    ELSE Outcome(d, d, emitEvent("error", cid, NoJob, "CONNECTION_FAILED"),
                 TRUE)

\* BasePrinter.dispose() on driver d
disposeOn(d, cleared, cid) ==
    IF d.isConnected
    THEN LET off == disconnectOn(d, cleared, cid)
         IN  IF off.raised THEN off
             ELSE [off EXCEPT !.drv.listeners = 0]
    ELSE [drv |-> [d EXCEPT !.listeners = 0], evs |-> <<>>, raised |-> FALSE]

\* the forwarders attach to a driver twice
setupPrinterEventForwardingTwice(d) == [d EXCEPT !.listeners = @ + 2]

\* setupPrinterEventForwarding(printer): one listener per forwarded event
setupPrinterEventForwarding(d) == [d EXCEPT !.listeners = @ + 1]

RECURSIVE Repeat(_, _)
Repeat(e, n) == IF n = 0 THEN <<>> ELSE <<e>> \o Repeat(e, n - 1)

RECURSIVE Delivered(_, _)
\* what the listeners of a driver re-emit on the registry when the driver
\* emits evs: (event) => this.emit(eventName, event), once per listener
Delivered(listening, evs) ==
    IF evs = <<>> THEN <<>>
    ELSE Repeat(Head(evs), listening) \o Delivered(listening, Tail(evs))

\* the registry after a driver that is in its printers map has emitted evs
\* while `listening` forwarders were attached to it
Emitted(r, listening, evs) ==
    [r EXCEPT !.emitted = @ \o evs,
              !.stream = @ \o Delivered(listening, evs)]

\* an event of the registry itself
RegistryEvent(type, id, cid) ==
    [type |-> type, printerId |-> id, obj |-> 0,
     data |-> Ev(type, cid, "-", "-", NoJob, NoErr)]

\* what a registry call hands back: the registry afterwards and "ok" or the
\* code of the PrinterError raised
Result(r, result, cause) == [reg |-> r, result |-> result, cause |-> cause]

\* config.isDefault as a condition: an absent flag is undefined, hence falsy
IsDefault(config) == "isDefault" \in DOMAIN config /\ config.isDefault

\* config.isDefault = flag on a stored config object
WithDefault(config, flag) ==
    [f \in DOMAIN config \cup {"isDefault"} |->
        IF f = "isDefault" THEN flag ELSE config[f]]

\* a merge that lets the update replace the identifier
MergedById(currentConfig, updates, id) ==
    [f \in DOMAIN currentConfig \cup DOMAIN updates |->
        IF f \in DOMAIN updates THEN updates[f] ELSE currentConfig[f]]

\* { ...currentConfig, ...updates, id }
Merged(currentConfig, updates, id) ==
    [f \in DOMAIN currentConfig \cup DOMAIN updates \cup {"id"} |->
        IF f = "id" THEN id
        ELSE IF f \in DOMAIN updates THEN updates[f] ELSE currentConfig[f]]

\* a registry that accepts an identifier it already holds
DuplicateIgnored(r, config) == FALSE

\* this.printers.has(config.id)
Duplicate(r, config) == MapHas(r.printers, config.id)

\* a registry whose first printer becomes the default only when marked
becomesDefaultOnlyIfMarked(config, printers) == IsDefault(config)

\* config.isDefault || this.printers.size === 1, printers being the map
\* after the new entry was set
becomesDefault(config, printers) == IsDefault(config) \/ Len(printers) = 1

\* registerPrinter(config), as registry call number cid; ctorOk = FALSE when
\* the driver constructor throws
registerPrinter(r, config, ctorOk, cid) ==
    LET made == createPrinter(config, ctorOk)
        printer == setupPrinterEventForwarding(
                       NewDriver(config.id, r.objs + 1, cid))
        printers == MapSet(r.printers, config.id, printer)
    IN  IF ~validateConfig(config)
        THEN Result(r, "INVALID_CONFIG", "invalid")
        ELSE IF Duplicate(r, config)
        THEN Result(r, "INVALID_CONFIG", "exists")
        ELSE IF made.result # "driver"
        THEN Result(r, "INVALID_CONFIG", made.result)
        ELSE Result(
               [r EXCEPT
                  !.printers = printers,
                  !.configs = MapSet(@, config.id, config),
                  !.defaultPrinterId =
                      IF becomesDefault(config, printers)
                      THEN config.id ELSE @,
                  !.stream = @ \o <<RegistryEvent("printer_registered",
                                                  config.id, cid)>>,
                  !.objs = @ + 1],
               "ok", NoErr)

\* a promotion that picks the entry registered last
promotedLast(printers) ==
    IF Len(printers) > 0 THEN printers[Len(printers)].key ELSE Null

\* this.printers.size > 0 ? this.printers.keys().next().value : null
promoted(printers) ==
    IF Len(printers) > 0 THEN MapKeys(printers)[1] ELSE Null

\* unregisterPrinter(id); cleared = FALSE when the driver's disconnect throws
unregisterPrinter(r, id, cleared, cid) ==
    IF ~MapHas(r.printers, id)
    THEN Result(r, "PRINTER_NOT_FOUND", NoErr)
    ELSE LET printer == MapGet(r.printers, id)
             off == disposeOn(printer, cleared, cid)
             r1 == Emitted(r, printer.listeners, off.evs)
             printers == MapDelete(r.printers, id)
         IN  IF off.raised
             THEN Result([r1 EXCEPT !.printers = MapSet(@, id, off.drv)],
                         "CONNECTION_FAILED", "dispose")
             ELSE Result(
                    [r1 EXCEPT
                       !.printers = printers,
                       !.configs = MapDelete(@, id),
                       !.defaultPrinterId =
                           IF @ = id THEN promoted(printers) ELSE @,
                       !.stream = @ \o <<RegistryEvent("printer_unregistered",
                                                       id, cid)>>],
                    "ok", NoErr)

\* null where a driver is expected: no object
NoPrinter == NewDriver(Null, 0, 0)

\* getPrinter(id): this.printers.get(id) || null
getPrinter(r, id) ==
    IF MapHas(r.printers, id) THEN MapGet(r.printers, id) ELSE NoPrinter

\* the printer registered first, whatever the default is
getFirstPrinter(r) ==
    IF r.printers # <<>> THEN r.printers[1].value ELSE NoPrinter

\* getDefaultPrinter()
getDefaultPrinter(r) ==
    IF r.defaultPrinterId # Null THEN getPrinter(r, r.defaultPrinterId)
    ELSE NoPrinter

\* setDefaultPrinter(id)
setDefaultPrinter(r, id, cid) ==
    IF ~MapHas(r.printers, id)
    THEN Result(r, "PRINTER_NOT_FOUND", NoErr)
    ELSE LET oldDefaultId == r.defaultPrinterId
             marked == IF MapHas(r.configs, id)
                       THEN MapSet(r.configs, id,
                                   WithDefault(MapGet(r.configs, id), TRUE))
                       ELSE r.configs
             cleared == IF /\ oldDefaultId # Null
                           /\ oldDefaultId # id
                           /\ MapHas(marked, oldDefaultId)
                        THEN MapSet(marked, oldDefaultId,
                                    WithDefault(MapGet(marked, oldDefaultId),
                                                FALSE))
                        ELSE marked
         IN  Result([r EXCEPT
                       !.defaultPrinterId = id,
                       !.configs = cleared,
                       !.stream = @ \o <<RegistryEvent(
                                           "default_printer_changed", id, cid)>>],
                    "ok", NoErr)

\* a replacement driver that is never reconnected
replacementLeftOffline(id, obj, since, wasConnected, answer, cid) ==
    LET newPrinter == setupPrinterEventForwarding(NewDriver(id, obj, since))
    IN  [drv |-> newPrinter, evs |-> <<>>, raised |-> FALSE]

\* updatePrinterConfig, once the old driver is disposed of and the factory
\* has made newPrinter: forwarding is set up and, if the old driver was
\* connected, await newPrinter.connect()
replacement(id, obj, since, wasConnected, answer, cid) ==
    LET newPrinter == setupPrinterEventForwarding(NewDriver(id, obj, since))
    IN  IF wasConnected THEN connectOn(newPrinter, answer, cid)
        ELSE [drv |-> newPrinter, evs |-> <<>>, raised |-> FALSE]

\* the try block of updatePrinterConfig: the old driver is disconnected and
\* disposed of, the new one is made, forwarded and reconnected, and the new
\* config is stored; cleared, ctorOk and answer are the outcomes of the old
\* driver's disconnect, of the driver constructor and of the new driver's
\* connection probe
replaceDriver(r, id, newConfig, cleared, ctorOk, answer, cid) ==
    LET updated(r0) ==
            Result([r0 EXCEPT
                      !.configs = MapSet(@, id, newConfig),
                      !.stream = @ \o <<RegistryEvent("printer_config_updated",
                                                      id, cid)>>],
                   "ok", NoErr)
    IN
    IF ~MapHas(r.printers, id)
    THEN updated(r)
    ELSE
    LET currentPrinter == MapGet(r.printers, id)
        wasConnected == currentPrinter.isConnected
        off == IF wasConnected
               THEN disconnectOn(currentPrinter, cleared, cid)
               ELSE [drv |-> currentPrinter, evs |-> <<>>, raised |-> FALSE]
        gone == IF off.raised THEN off ELSE disposeOn(off.drv, cleared, cid)
        r1 == [Emitted(r, currentPrinter.listeners, off.evs \o gone.evs)
                 EXCEPT !.printers = MapSet(@, id, gone.drv)]
        made == createPrinter(newConfig, ctorOk)
        new == replacement(newConfig.id, r.objs + 1, currentPrinter.since,
                           wasConnected, answer, cid)
        r2 == Emitted([r1 EXCEPT !.printers = MapSet(@, id, new.drv),
                                 !.objs = @ + 1],
                      new.drv.listeners, new.evs)
    IN
    IF off.raised THEN Result(r1, "INVALID_CONFIG", "disconnect")
    ELSE IF made.result # "driver"
    THEN Result(r1, "INVALID_CONFIG", made.result)
    ELSE IF new.raised THEN Result(r2, "INVALID_CONFIG", "connect")
    ELSE updated(r2)

\* an update that does not validate the merged config before it starts
updatePrinterConfigUnchecked(r, id, updates, cleared, ctorOk, answer, cid) ==
    IF ~MapHas(r.configs, id)
    THEN Result(r, "PRINTER_NOT_FOUND", NoErr)
    ELSE replaceDriver(r, id, Merged(MapGet(r.configs, id), updates, id),
                       cleared, ctorOk, answer, cid)

\* updatePrinterConfig(id, updates)
updatePrinterConfig(r, id, updates, cleared, ctorOk, answer, cid) ==
    IF ~MapHas(r.configs, id)
    THEN Result(r, "PRINTER_NOT_FOUND", NoErr)
    ELSE LET currentConfig == MapGet(r.configs, id)
             newConfig == Merged(currentConfig, updates, id)
         IN  IF ~validateConfig(newConfig)
             THEN Result(r, "INVALID_CONFIG", "invalid")
             ELSE replaceDriver(r, id, newConfig, cleared, ctorOk, answer, cid)

\* no catch around a driver's dispose()
uncaught(off) == off

\* try { await printer.dispose() } catch (error) { console.warn(...) }
caught(off) == [off EXCEPT !.raised = FALSE]

RECURSIVE disposeEach(_, _, _, _)
\* printers.map(async (printer) => ...): dispose() is called on every driver
\* in map order; the drivers in failing raise.  attempted is the set of
\* driver objects whose dispose() was called, raised is whether Promise.all
\* rejects.
disposeEach(r, printers, failing, cid) ==
    IF printers = <<>>
    THEN [reg |-> r, raised |-> FALSE, attempted |-> {}]
    ELSE LET printer == Head(printers)
             off == caught(disposeOn(printer, printer.id \notin failing, cid))
             rest == disposeEach(Emitted(r, printer.listeners, off.evs),
                                 Tail(printers), failing, cid)
         IN  [reg |-> rest.reg, raised |-> off.raised \/ rest.raised,
              attempted |-> {printer.obj} \cup rest.attempted]

\* PrinterRegistry.dispose()
disposeRegistry(r, failing, cid) ==
    LET all == disposeEach(r, MapValues(r.printers), failing, cid)
    IN  IF all.raised
        THEN [reg |-> all.reg, result |-> "CONNECTION_FAILED",
              cause |-> "dispose", attempted |-> all.attempted]
        ELSE [reg |-> [all.reg EXCEPT !.printers = <<>>, !.configs = <<>>,
                                      !.defaultPrinterId = Null],
              result |-> "ok", cause |-> NoErr,
              attempted |-> all.attempted]

----------------------------------------------------------------------------
(* Registry specification *)

\* number of calls made on the registry and its drivers in one behaviour
MaxRegistryOps == 4

\* the identifiers tried
PrinterIds == {"p1", "p2", "p3"}

\* a configuration of the given type and paper size
RegistryConfig(id, type, paperSize) ==
    [id |-> id, name |-> "Main", type |-> type, connectionType |-> "usb",
     connectionString |-> <<"C", "B", "X">>, paperSize |-> paperSize,
     timeout |-> Num(5000), retryAttempts |-> Num(3)]

\* the configurations registered, without the isDefault flag and with it
\* set; type epson has no driver class, and a cbx_pos_89e with 44mm paper is
\* invalid
RegistryConfigs ==
    LET plain == {RegistryConfig(id, "cbx_pos_89e", "80mm") : id \in PrinterIds}
                 \cup {RegistryConfig("p1", "epson", "80mm")}
    IN  plain \cup {WithDefault(config, TRUE) : config \in plain}
              \cup {RegistryConfig("p1", "cbx_pos_89e", "44mm")}

\* the updates tried
ConfigUpdates ==
    { [isDefault |-> TRUE], [isDefault |-> FALSE], [type |-> "epson"],
      [paperSize |-> "44mm"], [id |-> "p9", name |-> "Renamed"] }

\* one call on the registry, or on a driver obtained from it, from its
\* first statement to the settlement of the promise it returns
RegistryStep(op, id, arg, out, attempted) ==
    /\ rcall.n < MaxRegistryOps
    /\ registry' = out.reg
    /\ rcall' = [n |-> rcall.n + 1, op |-> op, id |-> id, arg |-> arg,
                 result |-> out.result, cause |-> out.cause,
                 before |-> registry, attempted |-> attempted]
    /\ UNCHANGED <<driverVars, fac, disc, serviceVars>>

RegisterPrinter(config, ctorOk) ==
    RegistryStep("registerPrinter", config.id, config,
                 registerPrinter(registry, config, ctorOk, rcall.n + 1), {})

UnregisterPrinter(id, cleared) ==
    RegistryStep("unregisterPrinter", id, NoArg,
                 unregisterPrinter(registry, id, cleared, rcall.n + 1), {})

SetDefaultPrinter(id) ==
    RegistryStep("setDefaultPrinter", id, NoArg,
                 setDefaultPrinter(registry, id, rcall.n + 1), {})

UpdatePrinterConfig(id, updates, cleared, ctorOk, answer) ==
    RegistryStep("updatePrinterConfig", id, updates,
                 updatePrinterConfig(registry, id, updates, cleared, ctorOk,
                                     answer, rcall.n + 1), {})

RegistryDispose(failing) ==
    LET out == disposeRegistry(registry, failing, rcall.n + 1)
    IN  RegistryStep("dispose", Null, NoArg, out, out.attempted)

\* a call made on the driver that getPrinter(id) returns
DriverCall(op, id, off) ==
    /\ MapHas(registry.printers, id)
    /\ LET printer == MapGet(registry.printers, id)
           r == [Emitted(registry, printer.listeners, off.evs)
                   EXCEPT !.printers = MapSet(@, id, off.drv)]
       IN  RegistryStep(op, id, NoArg,
                        Result(r, IF off.raised THEN "CONNECTION_FAILED"
                                  ELSE "ok", NoErr), {})

DriverConnect(id, answer) ==
    /\ MapHas(registry.printers, id)
    /\ DriverCall("connect", id,
                  connectOn(MapGet(registry.printers, id), answer, rcall.n + 1))

DriverDisconnect(id, cleared) ==
    /\ MapHas(registry.printers, id)
    /\ DriverCall("disconnect", id,
                  disconnectOn(MapGet(registry.printers, id), cleared,
                               rcall.n + 1))

InitRegistry ==
    /\ isConnected = FALSE
    /\ status = OFFLINE
    /\ lastJobId = 0
    /\ listeners = FALSE
    /\ events = <<>>
    /\ calls = <<>>
    /\ fac = NoFac
    /\ UpperInit

\* the outcomes a step can meet: a disconnect can only fail, and a
\* replacement is only probed, on a driver that is connected; a constructor
\* only runs for a config that reaches it
Connected(id) ==
    MapHas(registry.printers, id) /\ MapGet(registry.printers, id).isConnected

ClearOutcomes(id) == IF Connected(id) THEN BOOLEAN ELSE {TRUE}

ProbeAnswers(id) ==
    IF Connected(id) THEN {"true", "false", "throws"} ELSE {"true"}

CtorOutcomes(config) ==
    IF createPrinter(config, TRUE).result = "driver" THEN BOOLEAN ELSE {TRUE}

UpdateCtorOutcomes(id, updates) ==
    IF MapHas(registry.configs, id)
    THEN CtorOutcomes(Merged(MapGet(registry.configs, id), updates, id))
    ELSE {TRUE}

NextRegistry ==
    \/ \E config \in RegistryConfigs : \E ctorOk \in CtorOutcomes(config) :
          RegisterPrinter(config, ctorOk)
    \/ \E id \in PrinterIds : \E cleared \in ClearOutcomes(id) :
          UnregisterPrinter(id, cleared)
    \/ \E id \in PrinterIds : SetDefaultPrinter(id)
    \/ \E id \in PrinterIds, updates \in ConfigUpdates :
          \E cleared \in ClearOutcomes(id), answer \in ProbeAnswers(id),
             ctorOk \in UpdateCtorOutcomes(id, updates) :
             UpdatePrinterConfig(id, updates, cleared, ctorOk, answer)
    \/ \E failing \in SUBSET {id \in PrinterIds : Connected(id)} :
          RegistryDispose(failing)
    \/ \E id \in PrinterIds, answer \in {"true", "false", "throws"} :
          DriverConnect(id, answer)
    \/ \E id \in PrinterIds, cleared \in BOOLEAN : DriverDisconnect(id, cleared)

SpecRegistry == InitRegistry /\ [][NextRegistry]_vars

----------------------------------------------------------------------------
(* Properties of the registry *)

\* the last call, if it was op and was made on the registry
Did(op) == rcall.op = op

Succeeded(op) == rcall.op = op /\ rcall.result = "ok"

Registered(r) == MapKeySet(r.printers)

\* C11: registerPrinter with an identifier that is already registered raises
\* and leaves the registry (the driver, its stored config, the default) as
\* it was; unregisterPrinter with an unknown identifier raises
\* PRINTER_NOT_FOUND and leaves the registry as it was.
C11_DuplicateAndUnknown ==
    /\ (Did("registerPrinter") /\ rcall.id \in Registered(rcall.before)) =>
          /\ rcall.result = "INVALID_CONFIG"
          /\ registry = rcall.before
    /\ (Did("unregisterPrinter") /\ rcall.id \notin Registered(rcall.before)) =>
          /\ rcall.result = "PRINTER_NOT_FOUND"
          /\ registry = rcall.before

\* a valid config marked default was rejected because its identifier is
\* registered, while another printer is the default
C11_Witness ==
    /\ Did("registerPrinter")
    /\ rcall.cause = "exists"
    /\ IsDefault(rcall.arg)
    /\ registry.defaultPrinterId \in Registered(registry) \ {rcall.id}

\* the registered identifier whose registration is the oldest
EarliestRegistered(r) ==
    IF r.printers = <<>> THEN Null
    ELSE CHOOSE id \in Registered(r) :
            \A other \in Registered(r) :
               MapGet(r.printers, id).since <= MapGet(r.printers, other).since

\* C12: registering a second printer that is not marked default leaves the
\* first one the default; unregistering the default makes the
\* earliest-registered remaining printer the default, or null when none
\* remains; unregistering another printer leaves the default unchanged.
C12_DefaultPromotion ==
    /\ (Succeeded("registerPrinter") /\ ~IsDefault(rcall.arg)
          /\ Len(rcall.before.printers) = 1) =>
          /\ getDefaultPrinter(registry) # NoPrinter
          /\ getDefaultPrinter(registry).id = MapKeys(rcall.before.printers)[1]
    /\ (Succeeded("unregisterPrinter")
          /\ rcall.before.defaultPrinterId = rcall.id) =>
          registry.defaultPrinterId = EarliestRegistered(registry)
    /\ (Succeeded("unregisterPrinter")
          /\ rcall.before.defaultPrinterId # rcall.id) =>
          registry.defaultPrinterId = rcall.before.defaultPrinterId

\* the default was unregistered while two printers remain, and the one
\* registered first of the two was promoted
C12_Witness ==
    /\ Succeeded("unregisterPrinter")
    /\ rcall.before.defaultPrinterId = rcall.id
    /\ Len(registry.printers) = 2
    /\ registry.defaultPrinterId = MapKeys(registry.printers)[1]

\* C13: the default id is null exactly when no printer is registered, and
\* otherwise is the id of a registered printer.
C13_DefaultIsRegistered ==
    IF registry.printers = <<>>
    THEN registry.defaultPrinterId = Null
    ELSE registry.defaultPrinterId \in Registered(registry)

\* an unregistration of the default failed (the driver's disconnect threw)
\* and the default is still that registered printer
C13_Witness ==
    /\ Did("unregisterPrinter")
    /\ rcall.result = "CONNECTION_FAILED"
    /\ rcall.before.defaultPrinterId = rcall.id
    /\ registry.defaultPrinterId = rcall.id
    /\ Len(registry.printers) = 2

\* the stored configs whose default flag is true
FlaggedDefault(r) ==
    {r.configs[i].key : i \in {j \in 1..Len(r.configs) :
                                  IsDefault(r.configs[j].value)}}

\* C14: while the registry is not empty, exactly one stored config has its
\* default flag true, and it is the config of the default printer.
C14_OneFlaggedDefault ==
    registry.printers # <<>> =>
        FlaggedDefault(registry) = {registry.defaultPrinterId}

\* C15: after a successful updatePrinterConfig(id, updates) the driver
\* registered under id is connected exactly if the driver it replaced was
\* connected when the update began, and driver and stored config still
\* carry id.
C15_UpdateKeepsConnection ==
    Succeeded("updatePrinterConfig") =>
        /\ rcall.id \in Registered(registry)
        /\ Registered(registry) = Registered(rcall.before)
        /\ LET old == MapGet(rcall.before.printers, rcall.id)
               new == MapGet(registry.printers, rcall.id)
           IN  /\ new.obj # old.obj
               /\ new.isConnected = old.isConnected
               /\ new.id = rcall.id
        /\ MapGet(registry.configs, rcall.id).id = rcall.id

\* a connected driver was replaced by an update that tried to change the id
C15_Witness ==
    /\ Succeeded("updatePrinterConfig")
    /\ "id" \in DOMAIN rcall.arg
    /\ rcall.arg.id # rcall.id
    /\ MapGet(rcall.before.printers, rcall.id).isConnected
    /\ MapGet(registry.configs, rcall.id).name = "Renamed"

\* the events on the registry stream that carry a driver's payload
Forwarded(r) == LET fromDriver(e) == e.obj # 0 IN SelectSeq(r.stream, fromDriver)

\* C16: every event a registered driver emits is re-emitted once on the
\* registry's stream with the same payload, in the order of emission.
C16_EventsForwarded == Forwarded(registry) = registry.emitted

\* C17: dispose() calls dispose() on every registered driver even when some
\* raise, does not raise itself, and leaves no driver, no config and no
\* default printer.
C17_DisposeAll ==
    Did("dispose") =>
        /\ rcall.result = "ok"
        /\ rcall.attempted =
              {rcall.before.printers[i].value.obj :
                  i \in 1..Len(rcall.before.printers)}
        /\ registry.printers = <<>>
        /\ registry.configs = <<>>
        /\ registry.defaultPrinterId = Null

\* the first driver's dispose() raised and a second driver was registered
C17_Witness ==
    /\ Did("dispose")
    /\ Len(rcall.before.printers) = 2
    /\ Cardinality(rcall.attempted) = 2
    /\ rcall.before.printers[1].value.isConnected
    /\ \E i \in 1..Len(registry.emitted) :
          /\ registry.emitted[i].type = "error"
          /\ registry.emitted[i].data.cid = rcall.n

----------------------------------------------------------------------------
(* PrinterRegistry.discoverPrinters                                        *)
(*                                                                         *)
(* SpecDiscovery : one run of discoverPrinters().  A behaviour fixes what  *)
(*                 the probes meet: the platform, the output of the USB    *)
(*                 enumeration command and of the OS printer listing (the  *)
(*                 device names and ports they report, or a command that   *)
(*                 fails), and what happens to each socket probe.          *)

\* str.toLowerCase()
toLowerCase(str) ==
    LET lower(ch) ==
            CASE ch = "A" -> "a" [] ch = "B" -> "b" [] ch = "C" -> "c" [] ch = "D" -> "d"
              [] ch = "E" -> "e" [] ch = "F" -> "f" [] ch = "G" -> "g" [] ch = "H" -> "h"
              [] ch = "I" -> "i" [] ch = "J" -> "j" [] ch = "K" -> "k" [] ch = "L" -> "l"
              [] ch = "M" -> "m" [] ch = "N" -> "n" [] ch = "O" -> "o" [] ch = "P" -> "p"
              [] ch = "Q" -> "q" [] ch = "R" -> "r" [] ch = "S" -> "s" [] ch = "T" -> "t"
              [] ch = "U" -> "u" [] ch = "V" -> "v" [] ch = "W" -> "w" [] ch = "X" -> "x"
              [] ch = "Y" -> "y" [] ch = "Z" -> "z"
              [] OTHER -> ch
    IN  [i \in 1..Len(str) |-> lower(str[i])]

\* str.includes(sub)
includes(str, sub) ==
    \E i \in 0..(Len(str) - Len(sub)) : SubSeq(str, i + 1, i + Len(sub)) = sub

thermalKeywords ==
    { <<"t", "h", "e", "r", "m", "a", "l">>,
      <<"r", "e", "c", "e", "i", "p", "t">>,
      <<"p", "o", "s">>,
      <<"e", "p", "s", "o", "n">>,
      <<"s", "t", "a", "r">>,
      <<"c", "i", "t", "i", "z", "e", "n">>,
      <<"z", "e", "b", "r", "a">>,
      <<"e", "s", "c", "/", "p", "o", "s">>,
      <<"t", "m", "-">>,
      <<"t", "s", "p">>,
      <<"r", "p">>,
      <<"c", "t", "-">>,
      <<"z", "d">>,
      <<"g", "k">>,
      <<"g", "x">> }

\* isLikelyThermalPrinter(name)
isLikelyThermalPrinter(name) ==
    LET nameLower == toLowerCase(name)
    IN  IF \/ includes(nameLower, <<"c", "b", "x">>)
           \/ includes(nameLower, <<"8", "9", "e">>)
           \/ includes(nameLower, <<"p", "o", "s">>)
        THEN TRUE
        ELSE \E keyword \in thermalKeywords : includes(nameLower, keyword)

\* guessePrinterType(name)
guessePrinterType(name) ==
    LET nameLower == toLowerCase(name)
    IN  IF includes(nameLower, <<"c", "b", "x">>) \/ includes(nameLower, <<"8", "9", "e">>)
        THEN "cbx_pos_89e"
        ELSE IF includes(nameLower, <<"e", "p", "s", "o", "n">>) THEN "epson"
        ELSE IF includes(nameLower, <<"s", "t", "a", "r">>) THEN "star"
        ELSE "generic_esc_pos"

\* guessConnectionType(port); a port that matches /\d+\.\d+\.\d+\.\d+/ is not
\* among the ports tried
guessConnectionType(port) ==
    LET portLower == toLowerCase(port)
    IN  IF includes(portLower, <<"u", "s", "b">>) \/ includes(portLower, <<"h", "i", "d">>)
        THEN "usb"
        ELSE IF includes(portLower, <<"c", "o", "m">>) \/ includes(portLower, <<"t", "t", "y">>)
        THEN "serial"
        ELSE IF includes(portLower, <<"i", "p">>) THEN "network"
        ELSE "usb"

\* a PrinterDiscoveryResult; the id `${prefix}_${name}` is the pair
DiscoveryResult(prefix, name, type, connectionType, connectionString) ==
    [id |-> <<prefix, name>>, name |-> name, type |-> type,
     connectionType |-> connectionType,
     connectionString |-> connectionString, isAvailable |-> TRUE]

\* what a probe hands back: its results, or raised
Probed(results) == [raised |-> FALSE, results |-> results]

ProbeRaised == [raised |-> TRUE, results |-> <<>>]

\* a probe whose failure is not caught
uncaughtProbe(ran, results) == IF ran THEN Probed(results) ELSE ProbeRaised

\* try { execSync(...); results.push(...) } catch (error) { console.log(...) }
\* return results: ran = FALSE when the command throws
caughtProbe(ran, results) == IF ran THEN Probed(results) ELSE Probed(<<>>)

\* discoverUSBPrinters(): the devices the enumeration command reports that
\* look like thermal printers (system_profiler, PowerShell or lsusb)
discoverUSBPrinters(usb) ==
    LET device(name) == DiscoveryResult("usb", name, guessePrinterType(name),
                                        "usb", name)
        likely(row) == isLikelyThermalPrinter(row.name)
        found == SelectSeq(usb.rows, likely)
    IN  caughtProbe(usb.ran, [i \in 1..Len(found) |-> device(found[i].name)])

\* discoverWindowsPrinters(): wmic printer get name,portname
discoverWindowsPrinters(os) ==
    LET printer(row) ==
            DiscoveryResult("discovered", row.name, guessePrinterType(row.name),
                            guessConnectionType(row.port), row.name)
    IN  caughtProbe(os.ran, [i \in 1..Len(os.rows) |-> printer(os.rows[i])])

\* discoverMacOSPrinters() and discoverLinuxPrinters(): lpstat -p
discoverLpstatPrinters(os) ==
    LET printer(row) ==
            DiscoveryResult("discovered", row.name, guessePrinterType(row.name),
                            "usb", row.name)
    IN  caughtProbe(os.ran, [i \in 1..Len(os.rows) |-> printer(os.rows[i])])

commonIPs == <<"192.168.1.100", "192.168.1.101", "192.168.0.100", "192.168.0.101">>

\* checkNetworkPrinter(ip, 9100): resolves true when the socket connects,
\* false on a socket error and when the 1000 ms timer fires; rejects when
\* the executor throws
checkNetworkPrinter(outcome) ==
    CASE outcome = "connects" -> [raised |-> FALSE, value |-> TRUE]
      [] outcome = "error" -> [raised |-> FALSE, value |-> FALSE]
      [] outcome = "timeout" -> [raised |-> FALSE, value |-> FALSE]
      [] outcome = "throws" -> [raised |-> TRUE, value |-> FALSE]

RECURSIVE networkFrom(_, _)
\* the loop of discoverNetworkPrinters() from the i-th address on
networkFrom(i, net) ==
    IF i > Len(commonIPs) THEN <<>>
    ELSE LET ip == commonIPs[i]
             isAvailable == checkNetworkPrinter(net[i])
             here == IF ~isAvailable.raised /\ isAvailable.value
                     THEN <<DiscoveryResult("network", ip, "generic_esc_pos",
                                            "network", <<ip, 9100>>)>>
                     ELSE <<>>
         IN  here \o networkFrom(i + 1, net)

\* discoverNetworkPrinters()
discoverNetworkPrinters(net) == Probed(networkFrom(1, net))

\* the platform-specific branch of discoverPrinters()
discoverPlatformPrinters(platform, os) ==
    IF platform = "win32" THEN discoverWindowsPrinters(os)
    ELSE discoverLpstatPrinters(os)

\* discoverPrinters(): the three pushes inside one try; a probe that raises
\* ends the try with the results pushed so far
discoverPrinters(platform, usb, os, net) ==
    LET a == discoverUSBPrinters(usb)
        b == discoverPlatformPrinters(platform, os)
        c == discoverNetworkPrinters(net)
    IN  IF a.raised THEN Probed(<<>>)
        ELSE IF b.raised THEN Probed(a.results)
        ELSE IF c.raised THEN Probed(a.results \o b.results)
        ELSE Probed(a.results \o b.results \o c.results)

----------------------------------------------------------------------------
(* Discovery specification *)

Platforms == {"win32", "darwin", "linux"}

\* a row of command output: the device or printer name and its port
Row(name, port) == [name |-> name, port |-> port]

\* what the USB enumeration and the OS listing may report: the command
\* fails, reports nothing, or reports these rows
CommandOutputs ==
    { [ran |-> FALSE, rows |-> <<>>],
      [ran |-> TRUE, rows |-> <<>>],
      [ran |-> TRUE, rows |-> <<Row(<<"H", "P">>, <<"L", "P", "T", "1">>),
                                Row(<<"C", "B", "X">>, <<"U", "S", "B", "0", "0", "1">>)>>],
      [ran |-> TRUE, rows |-> <<Row(<<"T", "M", "-", "2", "0">>, <<"C", "O", "M", "1">>)>>] }

SocketOutcomes == {"connects", "error", "timeout", "throws"}

InitDiscovery ==
    /\ isConnected = FALSE
    /\ status = OFFLINE
    /\ lastJobId = 0
    /\ listeners = FALSE
    /\ events = <<>>
    /\ calls = <<>>
    /\ fac = NoFac
    /\ RegistryInit
    /\ ServiceInit
    /\ \E platform \in Platforms, usb \in CommandOutputs, os \in CommandOutputs,
          net \in [1..Len(commonIPs) -> SocketOutcomes] :
          disc = [op |-> "none", platform |-> platform, usb |-> usb,
                  os |-> os, net |-> net, raised |-> FALSE, results |-> <<>>]

DiscoverPrinters ==
    /\ disc.op = "none"
    /\ LET out == discoverPrinters(disc.platform, disc.usb, disc.os, disc.net)
       IN  disc' = [disc EXCEPT !.op = "discoverPrinters",
                                !.raised = out.raised,
                                !.results = out.results]
    /\ UNCHANGED <<driverVars, fac, registry, rcall, serviceVars>>

NextDiscovery == DiscoverPrinters

SpecDiscovery == InitDiscovery /\ [][NextDiscovery]_vars

----------------------------------------------------------------------------
(* Properties of discovery *)

\* the names of the results whose id has the given prefix
ResultNames(prefix) ==
    {disc.results[i].name :
        i \in {j \in 1..Len(disc.results) : disc.results[j].id[1] = prefix}}

RowNames(output) == {output.rows[i].name : i \in 1..Len(output.rows)}

\* C18: discoverPrinters() does not raise; the results are those of the
\* probes that did not fail: the likely thermal printers of a USB
\* enumeration that ran, the printers of an OS listing that ran, and the
\* addresses whose socket connected.  A socket that errors, times out or
\* cannot be opened contributes nothing, and nothing at all is found when
\* every probe fails.
C18_DiscoveryNeverRaises ==
    disc.op = "discoverPrinters" =>
        /\ ~disc.raised
        /\ ResultNames("usb") =
              {name \in RowNames(disc.usb) : isLikelyThermalPrinter(name)}
        /\ ResultNames("discovered") = RowNames(disc.os)
        /\ ResultNames("network") =
              {commonIPs[i] : i \in {j \in 1..Len(commonIPs) :
                                        disc.net[j] = "connects"}}
        /\ Len(disc.results) =
              Cardinality(ResultNames("usb"))
                + Cardinality(ResultNames("discovered"))
                + Cardinality(ResultNames("network"))

\* the USB enumeration failed, one socket timed out and one could not be
\* opened, and the OS listing and the socket that connected are returned
C18_Witness ==
    /\ disc.op = "discoverPrinters"
    /\ ~disc.usb.ran
    /\ disc.os.ran
    /\ "timeout" \in {disc.net[i] : i \in 1..Len(commonIPs)}
    /\ "throws" \in {disc.net[i] : i \in 1..Len(commonIPs)}
    /\ ResultNames("discovered") # {}
    /\ ResultNames("network") # {}

----------------------------------------------------------------------------
(* ConfigManager                                                           *)

\* what a ConfigManager call hands back: the manager afterwards and "ok" or
\* the code of the error raised
Stored(st, result) == [store |-> st, result |-> result]

\* ConfigManager.validateConfig(config)
configManagerValidateConfig(config) ==
    IF config.id = "" \/ config.name = "" \/ config.type = ""
         \/ config.connectionString = <<>>
    THEN FALSE
    ELSE IF config.type \notin PrinterType THEN FALSE
    ELSE IF config.connectionType \notin PrinterConnectionType THEN FALSE
    ELSE IF config.paperSize \notin PaperSize THEN FALSE
    ELSE IF NumTruthy(config.timeout)
              /\ (Val(config.timeout) < 0 \/ Val(config.timeout) > 60000)
    THEN FALSE
    ELSE IF NumTruthy(config.retryAttempts)
              /\ (Val(config.retryAttempts) < 0
                    \/ Val(config.retryAttempts) > 10)
    THEN FALSE
    ELSE TRUE

\* saveConfigurationsToFile(); writeOk = FALSE when fs.writeFile rejects
saveConfigurationsToFile(st, writeOk) ==
    IF writeOk
    THEN Stored([st EXCEPT !.file =
                    [exists |-> TRUE,
                     configurations |-> MapValues(st.configCache),
                     defaultConfigId |-> st.defaultConfigId]], "ok")
    ELSE Stored(st, "EIO")

RECURSIVE cacheOf(_, _)
\* for (const config of configurations) configCache.set(config.id, config)
cacheOf(cache, configurations) ==
    IF configurations = <<>> THEN cache
    ELSE cacheOf(MapSet(cache, Head(configurations).id, Head(configurations)),
                 Tail(configurations))

\* loadConfigurationsFromFile(): a file that cannot be read or parsed leaves
\* an empty cache
loadConfigurationsFromFile(st) ==
    IF st.file.exists
    THEN [st EXCEPT !.configCache = cacheOf(<<>>, st.file.configurations),
                    !.defaultConfigId = st.file.defaultConfigId]
    ELSE [st EXCEPT !.configCache = <<>>, !.defaultConfigId = Null]

\* ConfigManager.initialize(); mkdirOk = FALSE when fs.mkdir rejects
configManagerInitialize(st, mkdirOk) ==
    IF mkdirOk THEN Stored(loadConfigurationsFromFile(st), "ok")
    ELSE Stored(st, "INVALID_CONFIG")

\* existingConfig.isDefault = false on every other flagged config
othersUnflagged(cache, id) ==
    [i \in 1..Len(cache) |->
        IF cache[i].key # id /\ IsDefault(cache[i].value)
        THEN [key |-> cache[i].key, value |-> WithDefault(cache[i].value, FALSE)]
        ELSE cache[i]]

\* saveConfig(config)
saveConfig(st, config, writeOk) ==
    IF ~configManagerValidateConfig(config)
    THEN Stored(st, "INVALID_CONFIG")
    ELSE LET cache == MapSet(st.configCache, config.id, config)
             st1 == IF IsDefault(config)
                    THEN [st EXCEPT
                            !.configCache = othersUnflagged(cache, config.id),
                            !.defaultConfigId = config.id]
                    ELSE [st EXCEPT !.configCache = cache]
             saved == saveConfigurationsToFile(st1, writeOk)
         IN  IF saved.result = "ok" THEN saved
             ELSE Stored(st1, "INVALID_CONFIG")

\* loadAllConfigs()
loadAllConfigs(st) == MapValues(st.configCache)

\* deleteConfig(id): the not-found error is raised inside the try and leaves
\* wrapped as INVALID_CONFIG
deleteConfig(st, id, writeOk) ==
    IF ~MapHas(st.configCache, id)
    THEN Stored(st, "INVALID_CONFIG")
    ELSE LET cache == MapDelete(st.configCache, id)
             st1 == [st EXCEPT
                       !.configCache = cache,
                       !.defaultConfigId =
                           IF @ = id
                           THEN (IF Len(cache) > 0 THEN cache[1].key ELSE Null)
                           ELSE @]
             saved == saveConfigurationsToFile(st1, writeOk)
         IN  IF saved.result = "ok" THEN saved
             ELSE Stored(st1, "INVALID_CONFIG")

\* the optional numbers of a config, undefined when not given
OptionalNumbers == {"timeout", "retryAttempts"}

\* JSON.stringify of a config: a property whose value is undefined is left
\* out of the text
jsonObject(config) ==
    [f \in {g \in DOMAIN config :
              g \notin OptionalNumbers \/ config[g] # Undefined} |-> config[f]]

\* JSON.stringify(exportData): a text that parses to an object with a
\* configurations array (format "json").  The version and the export date
\* are written and never read back.
jsonStringify(exportData) ==
    [format |-> "json",
     configurations |-> [i \in 1..Len(exportData.configurations) |->
                            jsonObject(exportData.configurations[i])],
     defaultConfigId |-> exportData.defaultConfigId]

\* a parsed object: a property the text does not hold reads as undefined
jsonRead(object) ==
    [f \in DOMAIN object \cup OptionalNumbers |->
        IF f \in DOMAIN object THEN object[f] ELSE Undefined]

\* JSON.parse(data) of a text that parses
jsonParse(data) ==
    [data EXCEPT !.configurations =
        [i \in 1..Len(data.configurations) |->
            jsonRead(data.configurations[i])]]

\* exportConfigs()
exportConfigs(st) ==
    jsonStringify([configurations |-> MapValues(st.configCache),
                   defaultConfigId |-> st.defaultConfigId])

\* an import that validates nothing
noneChecked(configurations) == TRUE

RECURSIVE allValid(_)
\* for (const config of importData.configurations)
\*     if (!await this.validateConfig(config)) throw ...
allValid(configurations) ==
    \/ configurations = <<>>
    \/ /\ configManagerValidateConfig(Head(configurations))
       /\ allValid(Tail(configurations))

\* importConfigs(data): format is "json" for a text that parses to an object
\* with a configurations array, "object" for one that parses to an object
\* without it, and anything else for a text JSON.parse rejects
importConfigs(st, data, writeOk) ==
    IF data.format # "json" THEN Stored(st, "INVALID_CONFIG")
    ELSE IF ~allValid(jsonParse(data).configurations)
    THEN Stored(st, "INVALID_CONFIG")
    ELSE LET importData == jsonParse(data)
             cache == cacheOf(<<>>, importData.configurations)
             named == importData.defaultConfigId # Null
                        /\ MapHas(cache, importData.defaultConfigId)
             st1 == IF named
                    THEN [st EXCEPT !.configCache = cache,
                                    !.defaultConfigId =
                                        importData.defaultConfigId]
                    ELSE IF Len(cache) > 0
                    THEN [st EXCEPT
                            !.configCache =
                                MapSet(cache, cache[1].key,
                                       WithDefault(cache[1].value, TRUE)),
                            !.defaultConfigId = cache[1].key]
                    ELSE [st EXCEPT !.configCache = cache]
             saved == saveConfigurationsToFile(st1, writeOk)
         IN  IF saved.result = "ok" THEN saved
             ELSE Stored(st1, "INVALID_CONFIG")

\* ConfigManager.dispose(): a failing save is only logged
configManagerDispose(st, writeOk) ==
    LET saved == saveConfigurationsToFile(st, writeOk)
    IN  Stored([saved.store EXCEPT !.configCache = <<>>,
                                   !.defaultConfigId = Null], "ok")

----------------------------------------------------------------------------
(* PrinterService                                                          *)
(*                                                                         *)
(* SpecService : one PrinterService with the registry and the              *)
(*               ConfigManager it constructs.  Service calls are made one  *)
(*               after another: a call is one step, and the outcome of     *)
(*               each file or device operation it awaits is an input of    *)
(*               the step.                                                 *)

\* what a service call hands back: the service, its registry and its
\* ConfigManager afterwards, "ok" or the code of the error raised, the value
\* returned, and which of registry and store the call has used
Done(svc, reg, st, result, cause, value, touched) ==
    [service |-> svc, registry |-> reg, store |-> st, result |-> result,
     cause |-> cause, value |-> value, touched |-> touched]

\* an event of the service itself
ServiceEvent(type, id, cid) ==
    [type |-> type, printerId |-> id, obj |-> 0,
     data |-> Ev(type, cid, "-", "-", NoJob, NoErr)]

\* setupEventForwarding(): the service re-emits what the registry has
\* emitted going from r0 to r1, once per set of forwarders attached
heard(svc, r0, r1) ==
    [svc EXCEPT !.stream =
        @ \o Delivered(svc.forwarding,
                       SubSeq(r1.stream, Len(r0.stream) + 1, Len(r1.stream)))]

\* the error a failing driver call leaves with: handleError emits 'error'
\* before it throws, and EventEmitter.emit('error') throws on the first
\* emitter of the chain driver -> registry -> service that has no listener
raisedCode(svc, printer, code) ==
    IF printer.listeners > 0 /\ svc.forwarding > 0 /\ svc.onError
    THEN code ELSE "ERR_UNHANDLED_ERROR"

\* a service that lets every call through
ensureInitializedSkipped(svc) == TRUE

\* ensureInitialized(): TRUE when it returns, FALSE when it throws
\* PrinterError('Printer service not initialized', INVALID_CONFIG)
ensureInitialized(svc) == svc.initialized

\* the error ensureInitialized() throws, before anything else is done
NotInitialized(svc, reg, st) ==
    Done(svc, reg, st, "INVALID_CONFIG", "not initialized", NoArg, {})

\* an initialize() that never returns early
initializeAgain(svc) == FALSE

\* if (this.initialized) return, at the head of initialize()
alreadyInitialized(svc) == svc.initialized

RECURSIVE registerAll(_, _, _, _)
\* for (const config of configs) try { await registry.registerPrinter(config) }
\* catch { console.warn(...) }
registerAll(r, configs, ctorOk, cid) ==
    IF configs = <<>> THEN r
    ELSE registerAll(registerPrinter(r, Head(configs), ctorOk, cid).reg,
                     Tail(configs), ctorOk, cid)

\* initialize(); mkdirOk = FALSE when the config directory cannot be made,
\* ctorOk = FALSE when driver constructors throw
initialize(svc, reg, st, mkdirOk, ctorOk, cid) ==
    IF alreadyInitialized(svc)
    THEN Done(svc, reg, st, "ok", NoErr, NoArg, {})
    ELSE LET loaded == configManagerInitialize(st, mkdirOk)
             configs == loadAllConfigs(loaded.store)
             r1 == registerAll(reg, configs, ctorOk, cid)
             svc1 == heard(svc, reg, r1)
         IN  IF loaded.result # "ok"
             THEN Done(svc, reg, loaded.store, "INVALID_CONFIG", "store",
                       NoArg, {"store"})
             ELSE Done([svc1 EXCEPT
                          !.initialized = TRUE,
                          !.stream = @ \o <<ServiceEvent("service_initialized",
                                                         Null, cid)>>],
                       r1, loaded.store, "ok", NoErr, NoArg,
                       {"store", "registry"})

\* a shutdown that disposes of the config store first
shutdownStepsStoreFirst == <<"store", "registry", "flag">>

\* the statements of shutdown() between its awaits, in program order:
\* await registry.dispose(); await configManager.dispose(); then
\* initialized = false, removeAllListeners() and emit('service_shutdown')
shutdownSteps == <<"registry", "store", "flag">>

\* the service, its registry and its store, and whether a step has raised
Sys(svc, reg, st, raised) ==
    [service |-> svc, registry |-> reg, store |-> st, raised |-> raised]

\* one step of shutdown().  The registry's dispose() ends with
\* removeAllListeners(), which detaches the service's forwarders; failing
\* are the drivers whose disconnect throws, writeOk = FALSE when the final
\* save fails.
shutdownStep(step, sys, failing, writeOk, cid) ==
    CASE step = "registry" ->
           LET disposed == disposeRegistry(sys.registry, failing, cid)
               svc1 == heard(sys.service, sys.registry, disposed.reg)
           IN  IF disposed.result # "ok"
               THEN Sys(svc1, disposed.reg, sys.store, TRUE)
               ELSE Sys([svc1 EXCEPT !.forwarding = 0], disposed.reg,
                        sys.store, FALSE)
      [] step = "store" ->
           Sys(sys.service, sys.registry,
               configManagerDispose(sys.store, writeOk).store, FALSE)
      [] step = "flag" ->
           Sys([sys.service EXCEPT
                  !.initialized = FALSE,
                  !.onError = FALSE,
                  !.stream = @ \o <<ServiceEvent("service_shutdown", Null,
                                                 cid)>>],
               sys.registry, sys.store, FALSE)

RECURSIVE shutdownFrom(_, _, _, _, _)
\* shutdown() from its k-th step on; a step that raises ends in the catch
shutdownFrom(k, sys, failing, writeOk, cid) ==
    IF k > Len(shutdownSteps) \/ sys.raised THEN sys
    ELSE shutdownFrom(k + 1,
                      shutdownStep(shutdownSteps[k], sys, failing, writeOk,
                                   cid),
                      failing, writeOk, cid)

\* shutdown()
shutdown(svc, reg, st, failing, writeOk, cid) ==
    IF ~svc.initialized
    THEN Done(svc, reg, st, "ok", NoErr, NoArg, {})
    ELSE LET end == shutdownFrom(1, Sys(svc, reg, st, FALSE), failing,
                                 writeOk, cid)
         IN  Done(end.service, end.registry, end.store, "ok",
                  IF end.raised THEN "warned" ELSE NoErr, NoArg,
                  IF end.raised THEN {"registry"} ELSE {"registry", "store"})

\* the registry after a call on one of its drivers
afterDriver(r, printer, off) ==
    [Emitted(r, printer.listeners, off.evs)
        EXCEPT !.printers = MapSet(@, printer.id, off.drv)]

\* CbxPos89ePrinter.print() on driver d; printed = FALSE when the
\* translation, the device or the cut throws
printOn(d, printed, cid) ==
    LET job == d.lastJobId + 1
        d1 == [d EXCEPT !.lastJobId = job]
        started == setStatus(d.status, PRINTING, cid)
                     \o emitEvent("job_started", cid, job, NoErr)
    IN  IF ~d.isConnected
        THEN [drv |-> d1, evs |-> <<>>, raised |-> TRUE,
              code |-> "PRINTER_OFFLINE", job |-> job]
        ELSE IF printed
        THEN [drv |-> [d1 EXCEPT !.status = IDLE],
              evs |-> Payload(d, started
                                   \o setStatus(PRINTING, IDLE, cid)
                                   \o emitEvent("job_completed", cid, job,
                                                NoErr)),
              raised |-> FALSE, code |-> "ok", job |-> job]
        ELSE [drv |-> [d1 EXCEPT !.status = ERROR],
              evs |-> Payload(d, started
                                   \o setStatus(PRINTING, ERROR, cid)
                                   \o emitEvent("job_failed", cid, job,
                                                "COMMAND_ERROR")),
              raised |-> TRUE, code |-> "COMMAND_ERROR", job |-> job]

\* a service that connects before every print
needsConnectAlways(printer) == TRUE

\* if (!printer.isConnected())
needsConnect(printer) == ~printer.isConnected

\* if (!printer.isConnected()) await printer.connect();
\* return await printer.print(content, config)
connectAndPrint(svc, reg, st, printer, answer, printed, cid) ==
    LET on == IF needsConnect(printer)
              THEN connectOn(printer, answer, cid)
              ELSE [drv |-> printer, evs |-> <<>>, raised |-> FALSE]
        r1 == afterDriver(reg, printer, on)
        job == printOn(on.drv, printed, cid)
        r2 == afterDriver(r1, on.drv, job)
    IN  IF on.raised
        THEN Done(heard(svc, reg, r1), r1, st,
                  raisedCode(svc, printer, "CONNECTION_FAILED"), "connect",
                  NoArg, {"registry"})
        ELSE IF job.raised
        THEN Done(heard(svc, reg, r2), r2, st, job.code, "print", NoArg,
                  {"registry"})
        ELSE Done(heard(svc, reg, r2), r2, st, "ok", NoErr,
                  [jobId |-> <<printer.id, job.job>>], {"registry"})

\* print(printerId, content, config)
print(svc, reg, st, printerId, answer, printed, cid) ==
    IF ~ensureInitialized(svc) THEN NotInitialized(svc, reg, st)
    ELSE LET printer == getPrinter(reg, printerId)
         IN  IF printer = NoPrinter
             THEN Done(svc, reg, st, "PRINTER_NOT_FOUND", NoErr, NoArg,
                       {"registry"})
             ELSE connectAndPrint(svc, reg, st, printer, answer, printed, cid)

\* printText(printerId, text, config)
printText(svc, reg, st, printerId, answer, printed, cid) ==
    print(svc, reg, st, printerId, answer, printed, cid)

\* quickPrint(text, printerId?); printerId is Null when it is left out
quickPrint(svc, reg, st, printerId, answer, printed, cid) ==
    IF ~ensureInitialized(svc) THEN NotInitialized(svc, reg, st)
    ELSE LET targetPrinter == IF printerId # Null
                              THEN getPrinter(reg, printerId)
                              ELSE getDefaultPrinter(reg)
         IN  IF targetPrinter = NoPrinter
             THEN Done(svc, reg, st, "PRINTER_NOT_FOUND", NoErr, NoArg,
                       {"registry"})
             ELSE connectAndPrint(svc, reg, st, targetPrinter, answer,
                                  printed, cid)

\* printHelloWorld(printerId?): print(printerId || getDefaultPrinterId(), ...)
printHelloWorld(svc, reg, st, printerId, answer, printed, cid) ==
    IF ~ensureInitialized(svc) THEN NotInitialized(svc, reg, st)
    ELSE IF printerId # Null
    THEN print(svc, reg, st, printerId, answer, printed, cid)
    ELSE IF getDefaultPrinter(reg) = NoPrinter
    THEN Done(svc, reg, st, "PRINTER_NOT_FOUND", "no default", NoArg,
              {"registry"})
    ELSE print(svc, reg, st, getDefaultPrinter(reg).id, answer, printed, cid)

\* addPrinter(config)
addPrinter(svc, reg, st, config, writeOk, ctorOk, cid) ==
    IF ~ensureInitialized(svc) THEN NotInitialized(svc, reg, st)
    ELSE LET saved == saveConfig(st, config, writeOk)
             added == registerPrinter(reg, config, ctorOk, cid)
             svc1 == heard(svc, reg, added.reg)
         IN  IF saved.result # "ok"
             THEN Done(svc, reg, saved.store, "INVALID_CONFIG", "store",
                       NoArg, {"store"})
             ELSE IF added.result # "ok"
             THEN Done(svc, reg, saved.store, "INVALID_CONFIG", "registry",
                       NoArg, {"store", "registry"})
             ELSE Done([svc1 EXCEPT
                          !.stream = @ \o <<ServiceEvent("printer_added",
                                                         config.id, cid)>>],
                       added.reg, saved.store, "ok", NoErr,
                       [printerId |-> config.id], {"store", "registry"})

\* removePrinter(id)
removePrinter(svc, reg, st, id, cleared, writeOk, cid) ==
    IF ~ensureInitialized(svc) THEN NotInitialized(svc, reg, st)
    ELSE LET removed == unregisterPrinter(reg, id, cleared, cid)
             deleted == deleteConfig(st, id, writeOk)
             svc1 == heard(svc, reg, removed.reg)
         IN  IF removed.result # "ok"
             THEN Done(svc1, removed.reg, st, "PRINTER_NOT_FOUND", "registry",
                       NoArg, {"registry"})
             ELSE IF deleted.result # "ok"
             THEN Done(svc1, removed.reg, deleted.store, "PRINTER_NOT_FOUND",
                       "store", NoArg, {"registry", "store"})
             ELSE Done([svc1 EXCEPT
                          !.stream = @ \o <<ServiceEvent("printer_removed",
                                                         id, cid)>>],
                       removed.reg, deleted.store, "ok", NoErr, NoArg,
                       {"registry", "store"})

\* listPrinters()
listPrinters(svc, reg, st) ==
    IF ~ensureInitialized(svc) THEN NotInitialized(svc, reg, st)
    ELSE LET info(printer) ==
                 [id |-> printer.id,
                  status |-> IF printer.isConnected THEN IDLE ELSE OFFLINE,
                  isConnected |-> printer.isConnected]
             printers == MapValues(reg.printers)
         IN  Done(svc, reg, st, "ok", NoErr,
                  [printers |-> [i \in 1..Len(printers) |-> info(printers[i])]],
                  {"registry"})

\* what a test hands back: a boolean, or raised
Tested(valid) == [raised |-> FALSE, valid |-> valid]

TestRaised == [raised |-> TRUE, valid |-> FALSE]

\* CbxPos89ePrinter.selfTest(): the driver always has its thermalPrinter, so
\* a connected driver answers what isPrinterConnected() resolves to; answer
\* is that value, or "throws"
selfTest(printer, answer) ==
    IF ~printer.isConnected THEN Tested(FALSE)
    ELSE IF answer = "throws" THEN Tested(FALSE)
    ELSE Tested(answer = "true")

\* a validation that asks the device without looking at the driver and
\* without a try block
validatePrinterUnguarded(reg, id, answer) ==
    IF getPrinter(reg, id) = NoPrinter THEN Tested(FALSE)
    ELSE IF answer = "throws" THEN TestRaised
    ELSE Tested(answer = "true")

\* PrinterRegistry.validatePrinter(id)
validatePrinter(reg, id, answer) ==
    LET printer == getPrinter(reg, id)
    IN  IF printer = NoPrinter THEN Tested(FALSE)
        ELSE IF selfTest(printer, answer).raised THEN Tested(FALSE)
        ELSE selfTest(printer, answer)

\* testPrinter(id): ensureInitialized(), then registry.validatePrinter(id)
testPrinter(svc, reg, st, id, answer) ==
    IF ~ensureInitialized(svc) THEN NotInitialized(svc, reg, st)
    ELSE LET tested == validatePrinter(reg, id, answer)
         IN  IF tested.raised
             THEN Done(svc, reg, st, "COMMAND_ERROR", "driver", NoArg,
                       {"registry"})
             ELSE Done(svc, reg, st, "ok", NoErr, [valid |-> tested.valid],
                       {"registry"})

\* discoverPrinters() of the service
serviceDiscoverPrinters(svc, reg, st, platform, usb, os, net) ==
    IF ~ensureInitialized(svc) THEN NotInitialized(svc, reg, st)
    ELSE Done(svc, reg, st, "ok", NoErr,
              [results |-> discoverPrinters(platform, usb, os, net).results],
              {"registry"})

\* the config autoConfigurePrinter() builds from a discovery result
autoConfig(discoveryResult) ==
    [id |-> discoveryResult.id, name |-> discoveryResult.name,
     type |-> discoveryResult.type,
     connectionType |-> discoveryResult.connectionType,
     connectionString |-> discoveryResult.connectionString,
     paperSize |-> "80mm", characterSet |-> "UTF-8", timeout |-> Num(5000),
     retryAttempts |-> Num(3), isDefault |-> FALSE]

\* autoConfigurePrinter(discoveryResult)
autoConfigurePrinter(svc, reg, st, discoveryResult, writeOk, ctorOk, cid) ==
    IF ~ensureInitialized(svc) THEN NotInitialized(svc, reg, st)
    ELSE addPrinter(svc, reg, st, autoConfig(discoveryResult), writeOk,
                    ctorOk, cid)

\* exportConfigurations()
exportConfigurations(svc, reg, st) ==
    IF ~ensureInitialized(svc) THEN NotInitialized(svc, reg, st)
    ELSE Done(svc, reg, st, "ok", NoErr, [data |-> exportConfigs(st)],
              {"store"})

\* importConfigurations(data): the registry is disposed of and replaced by a
\* new PrinterRegistry, to which the forwarders are attached again
importConfigurations(svc, reg, st, data, writeOk, failing, ctorOk, cid) ==
    IF ~ensureInitialized(svc) THEN NotInitialized(svc, reg, st)
    ELSE LET imported == importConfigs(st, data, writeOk)
             configs == loadAllConfigs(imported.store)
             disposed == disposeRegistry(reg, failing, cid)
             svc1 == heard(svc, reg, disposed.reg)
             fresh == [EmptyRegistry EXCEPT !.objs = disposed.reg.objs]
             r1 == registerAll(fresh, configs, ctorOk, cid)
             svc2 == heard([svc1 EXCEPT !.forwarding = 1], fresh, r1)
         IN  IF imported.result # "ok"
             THEN Done(svc, reg, imported.store, "INVALID_CONFIG", "store",
                       NoArg, {"store"})
             ELSE IF disposed.result # "ok"
             THEN Done(svc1, disposed.reg, imported.store, disposed.result,
                       "registry", NoArg, {"store", "registry"})
             ELSE Done(svc2, r1, imported.store, "ok", NoErr, NoArg,
                       {"store", "registry"})

----------------------------------------------------------------------------
(* Service specification *)

\* number of calls made on the service in one behaviour
MaxServiceOps == 3

ServiceIds == {"p1", "p2"}

\* the configurations added: a plain one, one flagged as default, one whose
\* type has no driver class, one whose paper the driver type does not take,
\* and one without a name
ServiceConfigs ==
    { RegistryConfig("p1", "cbx_pos_89e", "80mm"),
      WithDefault(RegistryConfig("p2", "cbx_pos_89e", "80mm"), TRUE),
      RegistryConfig("p1", "epson", "80mm"),
      RegistryConfig("p2", "cbx_pos_89e", "44mm"),
      [RegistryConfig("p2", "cbx_pos_89e", "80mm") EXCEPT !.name = ""] }

\* what printers.json may hold when the service is constructed
Files ==
    { NoFile,
      [exists |-> TRUE, configurations |-> <<>>, defaultConfigId |-> Null],
      [exists |-> TRUE,
       configurations |-> <<RegistryConfig("p1", "cbx_pos_89e", "80mm")>>,
       defaultConfigId |-> "p1"],
      [exists |-> TRUE,
       configurations |->
           <<RegistryConfig("p1", "epson", "80mm"),
             WithDefault(RegistryConfig("p2", "cbx_pos_89e", "80mm"), TRUE)>>,
       defaultConfigId |-> "p2"],
      [exists |-> TRUE,
       configurations |->
           <<RegistryConfig("p1", "cbx_pos_89e", "80mm"),
             WithDefault(RegistryConfig("p2", "cbx_pos_89e", "80mm"), TRUE)>>,
       defaultConfigId |-> "p2"] }

\* the texts handed to importConfigurations
ImportData ==
    { [format |-> "garbage", configurations |-> <<>>,
       defaultConfigId |-> Null],
      [format |-> "json",
       configurations |-> <<RegistryConfig("p2", "cbx_pos_89e", "80mm")>>,
       defaultConfigId |-> Null],
      [format |-> "json",
       configurations |->
           <<[RegistryConfig("p1", "cbx_pos_89e", "80mm") EXCEPT !.name = ""]>>,
       defaultConfigId |-> "p1"] }

\* the discovery results handed to autoConfigurePrinter
AutoResults ==
    { [id |-> "p2", name |-> "CBX", type |-> "cbx_pos_89e",
       connectionType |-> "usb", connectionString |-> <<"C", "B", "X">>],
      [id |-> "p1", name |-> "Net", type |-> "cbx_pos_89e",
       connectionType |-> "network", connectionString |-> <<"h">>] }

\* one call on the service, from its first statement to the settlement of
\* the promise it returns, in a behaviour of at most max calls
ServiceStepWithin(max, op, arg, out) ==
    /\ scall.n < max
    /\ scall.result # "pending"
    /\ service' = out.service
    /\ registry' = out.registry
    /\ store' = out.store
    /\ scall' = [n |-> scall.n + 1, op |-> op, arg |-> arg,
                 result |-> out.result, cause |-> out.cause,
                 value |-> out.value, touched |-> out.touched, steps |-> <<>>,
                 service |-> service, registry |-> registry, store |-> store]
    /\ UNCHANGED <<driverVars, fac, rcall, disc>>

ServiceStep(op, arg, out) == ServiceStepWithin(MaxServiceOps, op, arg, out)

Initialize(mkdirOk, ctorOk) ==
    ServiceStep("initialize", [ctorOk |-> ctorOk],
                initialize(service, registry, store, mkdirOk, ctorOk,
                           scall.n + 1))

Shutdown(failing, writeOk) ==
    ServiceStep("shutdown", NoArg,
                shutdown(service, registry, store, failing, writeOk,
                         scall.n + 1))

QuickPrint(printerId, answer, printed) ==
    ServiceStep("quickPrint", [id |-> printerId],
                quickPrint(service, registry, store, printerId, answer,
                           printed, scall.n + 1))

PrintHelloWorld(printerId, answer, printed) ==
    ServiceStep("printHelloWorld", [id |-> printerId],
                printHelloWorld(service, registry, store, printerId, answer,
                                printed, scall.n + 1))

ServicePrint(printerId, answer, printed) ==
    ServiceStep("print", [id |-> printerId],
                print(service, registry, store, printerId, answer, printed,
                      scall.n + 1))

ServicePrintText(printerId, answer, printed) ==
    ServiceStep("printText", [id |-> printerId],
                printText(service, registry, store, printerId, answer,
                          printed, scall.n + 1))

AddPrinter(config, writeOk, ctorOk) ==
    ServiceStep("addPrinter", config,
                addPrinter(service, registry, store, config, writeOk, ctorOk,
                           scall.n + 1))

RemovePrinter(id, cleared, writeOk) ==
    ServiceStep("removePrinter", [id |-> id],
                removePrinter(service, registry, store, id, cleared, writeOk,
                              scall.n + 1))

ListPrinters ==
    ServiceStep("listPrinters", NoArg, listPrinters(service, registry, store))

TestPrinter(id, answer) ==
    ServiceStep("testPrinter", [id |-> id, answer |-> answer],
                testPrinter(service, registry, store, id, answer))

ServiceDiscoverPrinters(platform, usb, os, net) ==
    ServiceStep("discoverPrinters", NoArg,
                serviceDiscoverPrinters(service, registry, store, platform,
                                        usb, os, net))

AutoConfigurePrinter(discoveryResult, writeOk, ctorOk) ==
    ServiceStep("autoConfigurePrinter", discoveryResult,
                autoConfigurePrinter(service, registry, store,
                                     discoveryResult, writeOk, ctorOk,
                                     scall.n + 1))

ExportConfigurations ==
    ServiceStep("exportConfigurations", NoArg,
                exportConfigurations(service, registry, store))

ImportConfigurations(data, writeOk, failing, ctorOk) ==
    ServiceStep("importConfigurations", data,
                importConfigurations(service, registry, store, data, writeOk,
                                     failing, ctorOk, scall.n + 1))

\* a service just constructed, over the file a previous run has left; the
\* application may have attached an 'error' listener
InitService ==
    /\ isConnected = FALSE
    /\ status = OFFLINE
    /\ lastJobId = 0
    /\ listeners = FALSE
    /\ events = <<>>
    /\ calls = <<>>
    /\ fac = NoFac
    /\ RegistryInit
    /\ disc = NoDiscovery
    /\ \E onError \in BOOLEAN : service = [NewService EXCEPT !.onError = onError]
    /\ \E file \in Files : store = [EmptyStore EXCEPT !.file = file]
    /\ scall = NoServiceCall

\* the outcomes a step can meet: a call that stops at ensureInitialized()
\* or at an early return meets none
Outcomes(live, outcomes, only) == IF live THEN outcomes ELSE {only}

\* the drivers whose disconnect can throw: the connected ones
Disconnecting == {id \in ServiceIds : Connected(id)}

\* the target of a print needs connecting
Offline(printerId) ==
    LET id == IF printerId = Null THEN registry.defaultPrinterId ELSE printerId
    IN  MapHas(registry.printers, id) /\ ~Connected(id)

\* a print reaches the driver
Printable(printerId) ==
    LET id == IF printerId = Null THEN registry.defaultPrinterId ELSE printerId
    IN  MapHas(registry.printers, id)

PrintInputs(printerId) ==
    { <<answer, printed>> \in {"true", "false"} \X BOOLEAN :
        /\ service.initialized
        /\ answer = "false" => Offline(printerId)
        /\ ~printed => Printable(printerId) /\ answer = "true" }
      \cup (IF service.initialized THEN {} ELSE {<<"true", TRUE>>})

NextService ==
    \/ \E mkdirOk \in Outcomes(~service.initialized, BOOLEAN, TRUE) :
          \E ctorOk \in Outcomes(~service.initialized /\ mkdirOk
                                   /\ store.file.configurations # <<>>,
                                 BOOLEAN, TRUE) :
             Initialize(mkdirOk, ctorOk)
    \/ \E failing \in SUBSET Disconnecting :
          \E writeOk \in Outcomes(service.initialized, BOOLEAN, TRUE) :
             Shutdown(failing, writeOk)
    \/ \E printerId \in ServiceIds \cup {Null} :
          \E in \in PrintInputs(printerId) :
             QuickPrint(printerId, in[1], in[2])
    \/ \E printerId \in ServiceIds \cup {Null} :
          \E in \in PrintInputs(printerId) :
             PrintHelloWorld(printerId, in[1], in[2])
    \/ \E printerId \in ServiceIds : \E in \in PrintInputs(printerId) :
          ServicePrint(printerId, in[1], in[2])
    \/ \E printerId \in ServiceIds : \E in \in PrintInputs(printerId) :
          ServicePrintText(printerId, in[1], in[2])
    \/ \E config \in ServiceConfigs :
          \E writeOk \in Outcomes(service.initialized
                                    /\ configManagerValidateConfig(config),
                                  BOOLEAN, TRUE) :
             \E ctorOk \in Outcomes(service.initialized /\ writeOk,
                                    CtorOutcomes(config), TRUE) :
                AddPrinter(config, writeOk, ctorOk)
    \/ \E id \in ServiceIds :
          \E cleared \in ClearOutcomes(id) :
             \E writeOk \in Outcomes(service.initialized /\ cleared
                                       /\ MapHas(registry.printers, id)
                                       /\ MapHas(store.configCache, id),
                                     BOOLEAN, TRUE) :
                RemovePrinter(id, cleared, writeOk)
    \/ ListPrinters
    \/ \E id \in ServiceIds :
          \E answer \in Outcomes(service.initialized /\ Connected(id),
                                 {"true", "false", "throws"}, "true") :
             TestPrinter(id, answer)
    \/ \E usb \in Outcomes(service.initialized, CommandOutputs,
                           [ran |-> FALSE, rows |-> <<>>]) :
          ServiceDiscoverPrinters("linux", usb, [ran |-> FALSE, rows |-> <<>>],
                                  [i \in 1..Len(commonIPs) |-> "timeout"])
    \/ \E discoveryResult \in AutoResults :
          \E writeOk \in Outcomes(service.initialized, BOOLEAN, TRUE) :
             AutoConfigurePrinter(discoveryResult, writeOk, TRUE)
    \/ ExportConfigurations
    \/ \E data \in ImportData :
          \E writeOk \in Outcomes(service.initialized /\ data.format = "json"
                                    /\ allValid(data.configurations),
                                  BOOLEAN, TRUE) :
             \E failing \in Outcomes(writeOk, SUBSET Disconnecting, {}) :
                ImportConfigurations(data, writeOk, failing, TRUE)

SpecService == InitService /\ [][NextService]_vars

----------------------------------------------------------------------------
(* Properties of the service *)

\* the operations that begin with ensureInitialized()
GuardedOps ==
    {"quickPrint", "printHelloWorld", "print", "printText", "addPrinter",
     "removePrinter", "listPrinters", "testPrinter", "discoverPrinters",
     "autoConfigurePrinter", "exportConfigurations", "importConfigurations"}

\* the last call has left the service, its registry and its store as they
\* were and has used neither
NothingDone ==
    /\ service = scall.service
    /\ registry = scall.registry
    /\ store = scall.store
    /\ scall.touched = {}

\* the service_initialized events emitted so far
InitializedEvents ==
    LET initialized(e) == e.type = "service_initialized"
    IN  Len(SelectSeq(service.stream, initialized))

\* C19: initialize() on an initialized service returns without reloading,
\* re-registering or emitting, and shutdown() on a service that is not
\* initialized returns without doing anything.  A successful initialize()
\* leaves the service initialized and a shutdown() leaves it not
\* initialized, so the second call of initialize();initialize() and of
\* shutdown();shutdown() is such a call and the state is that of the first.
C19_InitializeShutdownIdempotent ==
    /\ (scall.op = "initialize" /\ scall.service.initialized) =>
          (scall.result = "ok" /\ NothingDone)
    /\ (scall.op = "shutdown" /\ ~scall.service.initialized) =>
          (scall.result = "ok" /\ NothingDone)
    /\ (scall.op = "initialize" /\ scall.result = "ok") => service.initialized
    /\ (scall.op = "initialize" /\ scall.result # "ok") =>
          (~service.initialized /\ service = scall.service
             /\ registry = scall.registry /\ store = scall.store)
    /\ scall.op = "shutdown" => (scall.result = "ok" /\ ~service.initialized)

\* initialize() has been called on a service that a first initialize() had
\* initialized with a printer loaded from the file
C19_Witness ==
    /\ scall.op = "initialize"
    /\ scall.service.initialized
    /\ scall.n = 2
    /\ registry.printers # <<>>
    /\ InitializedEvents = 1

\* C20: each of the twelve operations, called on a service that is not
\* initialized (before initialize() or after shutdown()), raises the
\* not-initialized error and uses neither the registry nor the store.
C20_GuardedWhenNotInitialized ==
    (scall.op \in GuardedOps /\ ~scall.service.initialized) =>
        /\ scall.result = "INVALID_CONFIG"
        /\ scall.cause = "not initialized"
        /\ NothingDone

\* addPrinter() has been refused after initialize() and shutdown()
C20_Witness ==
    /\ scall.op = "addPrinter"
    /\ scall.n = 3
    /\ ~scall.service.initialized
    /\ scall.result = "INVALID_CONFIG"
    /\ \E i \in 1..Len(service.stream) :
          service.stream[i].type = "service_shutdown"

\* the service's print operations
PrintOps == {"quickPrint", "printHelloWorld", "print", "printText"}

\* the events drivers have emitted during the last service call
NewlyEmitted ==
    SubSeq(registry.emitted, Len(scall.registry.emitted) + 1,
           Len(registry.emitted))

\* the last service call has used the driver registered as id and no other
OnlyDriverUsed(id) ==
    /\ NewlyEmitted # <<>>
    /\ \A i \in 1..Len(NewlyEmitted) : NewlyEmitted[i].printerId = id
    /\ MapKeys(registry.printers) = MapKeys(scall.registry.printers)
    /\ \A other \in MapKeySet(registry.printers) \ {id} :
          MapGet(registry.printers, other)
            = MapGet(scall.registry.printers, other)

\* C21: a print call without a printer id goes to the registry's default
\* printer and to no other driver; without a default it raises
\* PRINTER_NOT_FOUND and leaves every driver alone, and so does a call that
\* names an id that is not registered.
C21_DefaultPrinterResolution ==
    (scall.op \in PrintOps /\ scall.service.initialized) =>
        LET r0 == scall.registry
            target == IF scall.arg.id = Null THEN r0.defaultPrinterId
                      ELSE scall.arg.id
        IN  IF ~MapHas(r0.printers, target)
            THEN scall.result = "PRINTER_NOT_FOUND" /\ registry = r0
            ELSE scall.result # "PRINTER_NOT_FOUND" /\ OnlyDriverUsed(target)

\* quickPrint(text) without an id has printed on the default printer p2
\* while p1, registered first, is left alone
C21_Witness ==
    /\ scall.op = "quickPrint"
    /\ scall.arg.id = Null
    /\ scall.result = "ok"
    /\ scall.registry.defaultPrinterId = "p2"
    /\ MapKeys(registry.printers) = <<"p1", "p2">>
    /\ MapGet(registry.printers, "p2").lastJobId = 1
    /\ MapGet(registry.printers, "p1").lastJobId = 0

\* an event a connect() ends with: connection_restored, or the error of a
\* failed probe
ConnectEnded(e) ==
    \/ e.type = "connection_restored"
    \/ e.type = "error" /\ e.data.err = "CONNECTION_FAILED"

\* the connect() calls the last service call has made
ConnectsMade == Len(SelectSeq(NewlyEmitted, ConnectEnded))

\* the print() calls the last service call has made on the driver id:
\* print() takes a new job number whatever its outcome
PrintsMade(id) ==
    MapGet(registry.printers, id).lastJobId
      - MapGet(scall.registry.printers, id).lastJobId

\* in the events of the last service call, job_started comes after
\* connection_restored
ConnectedBeforePrint ==
    \A i, j \in 1..Len(NewlyEmitted) :
        (NewlyEmitted[i].type = "connection_restored"
           /\ NewlyEmitted[j].type = "job_started") => i < j

\* C22: a service print on a registered driver that is not connected calls
\* connect() once and print() after it; on a connected driver it calls
\* print() and not connect(); when the connect() fails, print() is not
\* called and the call raises.
C22_AutoConnectOnDemand ==
    LET r0 == scall.registry
        target == IF scall.arg.id = Null THEN r0.defaultPrinterId
                  ELSE scall.arg.id
    IN  (scall.op \in PrintOps /\ scall.service.initialized
           /\ MapHas(r0.printers, target)) =>
            IF MapGet(r0.printers, target).isConnected
            THEN ConnectsMade = 0 /\ PrintsMade(target) = 1
            ELSE /\ ConnectsMade = 1
                 /\ IF MapGet(registry.printers, target).isConnected
                    THEN PrintsMade(target) = 1 /\ ConnectedBeforePrint
                    ELSE PrintsMade(target) = 0 /\ scall.result # "ok"

\* print() has been called on a driver that an earlier service print had
\* connected
C22_Witness ==
    /\ scall.op = "print"
    /\ scall.result = "ok"
    /\ MapHas(scall.registry.printers, scall.arg.id)
    /\ MapGet(scall.registry.printers, scall.arg.id).isConnected
    /\ MapGet(registry.printers, scall.arg.id).lastJobId = 2

----------------------------------------------------------------------------
(* SpecLifecycle : the service of SpecService with shutdown() cut at its   *)
(*                 awaits, so that the states between registry.dispose(),  *)
(*                 configManager.dispose() and the clearing of the flag    *)
(*                 are states of the model.  scall.steps lists the steps   *)
(*                 of the running shutdown() that have been made.          *)

\* shutdown() up to its first await: an initialized service goes on to
\* dispose of the registry, any other returns at once
ShutdownBegin ==
    IF ~service.initialized
    THEN Shutdown({}, TRUE)
    ELSE /\ scall.n < MaxServiceOps
         /\ scall.result # "pending"
         /\ scall' = [n |-> scall.n + 1, op |-> "shutdown", arg |-> NoArg,
                      result |-> "pending", cause |-> NoErr, value |-> NoArg,
                      touched |-> {}, steps |-> <<>>, service |-> service,
                      registry |-> registry, store |-> store]
         /\ UNCHANGED <<driverVars, fac, rcall, disc, service, registry,
                        store>>

\* the next step of the running shutdown()
ShutdownStep(failing, writeOk) ==
    /\ scall.op = "shutdown"
    /\ scall.result = "pending"
    /\ LET step == shutdownSteps[Len(scall.steps) + 1]
           sys == shutdownStep(step, Sys(service, registry, store, FALSE),
                               failing, writeOk, scall.n)
           over == sys.raised \/ Len(scall.steps) + 1 = Len(shutdownSteps)
       IN  /\ service' = sys.service
           /\ registry' = sys.registry
           /\ store' = sys.store
           /\ scall' = [scall EXCEPT
                          !.steps = Append(@, step),
                          !.result = IF over THEN "ok" ELSE "pending",
                          !.cause = IF sys.raised THEN "warned" ELSE NoErr,
                          !.touched = IF sys.raised THEN {"registry"}
                                      ELSE {"registry", "store"}]
    /\ UNCHANGED <<driverVars, fac, rcall, disc>>

\* the step the running shutdown() makes next
Stepping(step) ==
    /\ scall.op = "shutdown"
    /\ scall.result = "pending"
    /\ shutdownSteps[Len(scall.steps) + 1] = step

NextLifecycle ==
    \/ \E mkdirOk \in Outcomes(~service.initialized, BOOLEAN, TRUE) :
          \E ctorOk \in Outcomes(~service.initialized /\ mkdirOk
                                   /\ store.file.configurations # <<>>,
                                 BOOLEAN, TRUE) :
             Initialize(mkdirOk, ctorOk)
    \/ ShutdownBegin
    \/ \E failing \in Outcomes(Stepping("registry"), SUBSET Disconnecting, {}) :
          \E writeOk \in Outcomes(Stepping("store"), BOOLEAN, TRUE) :
             ShutdownStep(failing, writeOk)
    \/ \E printerId \in ServiceIds : \E in \in PrintInputs(printerId) :
          ServicePrint(printerId, in[1], in[2])
    \/ \E config \in ServiceConfigs :
          \E writeOk \in Outcomes(service.initialized
                                    /\ configManagerValidateConfig(config),
                                  BOOLEAN, TRUE) :
             \E ctorOk \in Outcomes(service.initialized /\ writeOk,
                                    CtorOutcomes(config), TRUE) :
                AddPrinter(config, writeOk, ctorOk)

SpecLifecycle == InitService /\ [][NextLifecycle]_vars

\* the config registers when it is the only one
RegistersAlone(config, ctorOk) ==
    registerPrinter(EmptyRegistry, config, ctorOk, 0).result = "ok"

\* the ids of the loaded configs that register when taken alone
Registrable ==
    LET configs == loadAllConfigs(store)
    IN  { configs[i].id : i \in { j \in 1..Len(configs) :
                             RegistersAlone(configs[j], scall.arg.ctorOk) } }

\* the steps of the running or finished shutdown() are the first ones of
\* registry, store, flag
InOrder ==
    /\ Len(scall.steps) <= 3
    /\ scall.steps = SubSeq(<<"registry", "store", "flag">>, 1,
                            Len(scall.steps))

\* C23: an initialize() that loads the store ends with the service
\* initialized and service-initialized emitted last, and with every loaded
\* config registered that registers on its own, whichever others failed.
\* A shutdown() of an initialized service disposes of the registry, then of
\* the config store, then clears the flag: until the registry step the
\* registry is untouched, until the store step the store is untouched, and
\* the service stays initialized until the last step.
C23_InitializeTolerantShutdownOrdered ==
    /\ (scall.op = "initialize" /\ ~scall.service.initialized
          /\ scall.result = "ok") =>
          /\ service.initialized
          /\ service.stream # <<>>
          /\ service.stream[Len(service.stream)].type = "service_initialized"
          /\ Registered(registry) = Registered(scall.registry) \cup Registrable
    /\ (scall.op = "shutdown" /\ scall.service.initialized) =>
          /\ InOrder
          /\ Len(scall.steps) < 1 => registry = scall.registry
          /\ Len(scall.steps) >= 1 => registry.printers = <<>>
          /\ Len(scall.steps) < 2 => store = scall.store
          /\ Len(scall.steps) >= 2 => store.configCache = <<>>
          /\ service.initialized = (Len(scall.steps) < 3)

\* a shutdown() that has disposed of the registry and of the store and has
\* not yet cleared the flag, of a service whose initialize() had registered
\* p2 although p1, loaded before it, had failed
C23_Witness ==
    /\ scall.op = "shutdown"
    /\ scall.steps = <<"registry", "store">>
    /\ service.initialized
    /\ MapKeys(scall.store.configCache) = <<"p1", "p2">>
    /\ Registered(scall.registry) = {"p2"}
    /\ registry.printers = <<>>
    /\ store.configCache = <<>>

----------------------------------------------------------------------------
(* SpecImport : the service of SpecService with the calls that change the  *)
(*              config store, importing texts of every kind and the text   *)
(*              the service has just exported.                             *)

\* a config text without the optional numbers
BareConfig(id) ==
    [id |-> id, name |-> "Bare", type |-> "cbx_pos_89e",
     connectionType |-> "usb", connectionString |-> <<"C", "B", "X">>,
     paperSize |-> "80mm"]

\* the texts imported: one that is not JSON, one without a configurations
\* array, an empty array, a default that is not stated, one that is stated
\* and imported, one that is stated and not imported, and a valid record
\* followed by one without a name
ImportTexts ==
    { [format |-> "garbage", configurations |-> <<>>,
       defaultConfigId |-> Null],
      [format |-> "object", configurations |-> <<>>,
       defaultConfigId |-> "p1"],
      [format |-> "json", configurations |-> <<>>, defaultConfigId |-> Null],
      [format |-> "json", configurations |-> <<BareConfig("p2")>>,
       defaultConfigId |-> Null],
      [format |-> "json",
       configurations |-> <<BareConfig("p1"), BareConfig("p2")>>,
       defaultConfigId |-> "p2"],
      [format |-> "json", configurations |-> <<BareConfig("p2")>>,
       defaultConfigId |-> "p1"],
      [format |-> "json",
       configurations |->
           <<BareConfig("p2"), [BareConfig("p1") EXCEPT !.name = ""]>>,
       defaultConfigId |-> "p2"] }

\* importConfigurations(await exportConfigurations())
ImportExported(writeOk) ==
    /\ scall.op = "exportConfigurations"
    /\ scall.result = "ok"
    /\ ImportConfigurations(scall.value.data, writeOk, {}, TRUE)

NextImport ==
    \/ \E mkdirOk \in Outcomes(~service.initialized, BOOLEAN, TRUE) :
          Initialize(mkdirOk, TRUE)
    \/ \E config \in ServiceConfigs :
          \E writeOk \in Outcomes(service.initialized
                                    /\ configManagerValidateConfig(config),
                                  BOOLEAN, TRUE) :
             AddPrinter(config, writeOk, TRUE)
    \/ ExportConfigurations
    \/ \E data \in ImportTexts :
          \E writeOk \in Outcomes(service.initialized /\ data.format = "json"
                                    /\ allValid(jsonParse(data).configurations),
                                  BOOLEAN, TRUE) :
             ImportConfigurations(data, writeOk, {}, TRUE)
    \/ \E writeOk \in BOOLEAN : ImportExported(writeOk)

\* the file a run leaves that has added one printer not flagged as default:
\* saveConfig() caches it and leaves defaultConfigId null
UnflaggedFile ==
    [exists |-> TRUE,
     configurations |-> <<RegistryConfig("p1", "cbx_pos_89e", "80mm")>>,
     defaultConfigId |-> Null]

InitImport ==
    /\ isConnected = FALSE
    /\ status = OFFLINE
    /\ lastJobId = 0
    /\ listeners = FALSE
    /\ events = <<>>
    /\ calls = <<>>
    /\ fac = NoFac
    /\ RegistryInit
    /\ disc = NoDiscovery
    /\ \E onError \in BOOLEAN : service = [NewService EXCEPT !.onError = onError]
    /\ \E file \in Files \cup {UnflaggedFile} :
          store = [EmptyStore EXCEPT !.file = file]
    /\ scall = NoServiceCall

SpecImport == InitImport /\ [][NextImport]_vars

\* the last call is an import reaching the config store
Importing == scall.op = "importConfigurations" /\ scall.service.initialized

\* the records of the text that fail validation
Rejected(data) ==
    { i \in 1..Len(data.configurations) :
        ~configManagerValidateConfig(jsonRead(data.configurations[i])) }

\* C24: an import of a text without a configurations array, or with a
\* record that fails validation, raises, and the cached configs and the
\* default id of the store are those it had before the call.
C24_ImportAllOrNothing ==
    (Importing /\ (scall.arg.format # "json" \/ Rejected(scall.arg) # {})) =>
        /\ scall.result = "INVALID_CONFIG"
        /\ store.configCache = scall.store.configCache
        /\ store.defaultConfigId = scall.store.defaultConfigId

\* a store holding p1 as default has refused a text whose first record is
\* valid and whose second is not
C24_Witness ==
    /\ Importing
    /\ Rejected(scall.arg) = {2}
    /\ scall.result = "INVALID_CONFIG"
    /\ MapKeys(store.configCache) = <<"p1">>
    /\ store.defaultConfigId = "p1"

\* the ids of the records of a text
ImportedIds(data) ==
    {data.configurations[i].id : i \in 1..Len(data.configurations)}

\* C25: after a successful import the default id of the store is the one
\* the text states when a record of the text has it, is a record's id when
\* the text states none that was imported, and is absent when the text has
\* no record; it names a config the store holds.
C25_ImportedDefaultInStore ==
    (Importing /\ scall.result = "ok") =>
        LET ids == ImportedIds(scall.arg)
        IN  /\ IF scall.arg.defaultConfigId \in ids
               THEN store.defaultConfigId = scall.arg.defaultConfigId
               ELSE IF ids = {} THEN store.defaultConfigId = Null
               ELSE store.defaultConfigId \in ids
            /\ store.defaultConfigId # Null =>
                  MapHas(store.configCache, store.defaultConfigId)

\* C26: importing the text the service has just exported leaves the store
\* with the configs it had, field for field, and with the default id it had.
C26_ExportImportIdentity ==
    (Importing /\ scall.result = "ok"
       /\ scall.arg = exportConfigs(scall.store)) =>
        /\ store.configCache = scall.store.configCache
        /\ store.defaultConfigId = scall.store.defaultConfigId

----------------------------------------------------------------------------
(* Driver: jobs in progress (specification Spec) *)

\* the event that ends the job events[i] has started, or the end of the log
\* when the job is still in progress
JobEnd(i) ==
    LET ends == { j \in (i + 1)..Len(events) :
                    /\ events[j].type \in {"job_completed", "job_failed"}
                    /\ events[j].job = events[i].job }
    IN  IF ends = {} THEN Len(events) + 1
        ELSE CHOOSE j \in ends : \A k \in ends : j <= k

\* C27: between the job_started of a job and its job_completed or
\* job_failed the driver starts no other job, and no other call returns its
\* status to idle.
C27_OneJobInProgress ==
    \A i \in 1..Len(events) :
        events[i].type = "job_started" =>
            \A k \in (i + 1)..(JobEnd(i) - 1) :
                /\ events[k].type # "job_started"
                /\ ~(/\ events[k].type = "status_changed"
                     /\ events[k].new = IDLE
                     /\ events[k].cid # events[i].cid)

----------------------------------------------------------------------------
(* Service: testPrinter (specification SpecService) *)

\* what testPrinter(id) has to answer, from the registry it began in
TestExpected ==
    /\ MapHas(scall.registry.printers, scall.arg.id)
    /\ MapGet(scall.registry.printers, scall.arg.id).isConnected
    /\ scall.arg.answer = "true"

\* the last call has returned the boolean expected and left the registry
\* as it was
TestAnswered ==
    /\ scall.result = "ok"
    /\ scall.value = [valid |-> TestExpected]
    /\ registry = scall.registry

\* C28 as stated: testPrinter never raises, whatever the state of the
\* service; it answers false for an unknown id, for a driver that is not
\* connected and for a self-test that raises or fails, true otherwise, and
\* leaves the registry as it was.
C28_TestPrinterNeverRaises ==
    scall.op = "testPrinter" => TestAnswered

\* C28 amended: on an initialized service testPrinter never raises, answers
\* false for an unknown id, for a driver that is not connected and for a
\* self-test that raises or fails, true otherwise, and leaves the registry
\* as it was; on a service that is not initialized it raises the
\* not-initialized error and does nothing.
C28_TestPrinterWhenInitialized ==
    scall.op = "testPrinter" =>
        IF scall.service.initialized THEN TestAnswered
        ELSE scall.result = "INVALID_CONFIG" /\ NothingDone

\* the self-test of a connected driver has raised and testPrinter has
\* answered false
C28_Witness ==
    /\ scall.op = "testPrinter"
    /\ scall.service.initialized
    /\ MapHas(scall.registry.printers, scall.arg.id)
    /\ MapGet(scall.registry.printers, scall.arg.id).isConnected
    /\ scall.arg.answer = "throws"
    /\ scall.result = "ok"
    /\ scall.value = [valid |-> FALSE]

----------------------------------------------------------------------------
(* utils.ts                                                                *)
(*                                                                         *)
(* SpecUtils : calls of createCbxPos89eConfig with names, connection       *)
(*             strings and options drawn from small sets; the last call is *)
(*             recorded in scall.                                          *)

\* `cbx_${Date.now()}`
GeneratedId(now) == IF now = 1 THEN "cbx_1" ELSE "cbx_2"

\* options.f || fallback for a string property
StringOr(options, f, fallback) ==
    IF f \in DOMAIN options /\ options[f] # "" THEN options[f] ELSE fallback

\* options.f || fallback for a number property
NumberOr(options, f, fallback) ==
    IF f \in DOMAIN options /\ NumTruthy(options[f]) THEN options[f]
    ELSE Num(fallback)

\* the properties written before the spread of options
cbxDefaults(name, connectionString, options, now) ==
    [id |-> StringOr(options, "id", GeneratedId(now)),
     name |-> name,
     type |-> "cbx_pos_89e",
     connectionType |-> StringOr(options, "connectionType", "usb"),
     connectionString |-> connectionString,
     paperSize |-> StringOr(options, "paperSize", "80mm"),
     characterSet |-> StringOr(options, "characterSet", "UTF-8"),
     timeout |-> NumberOr(options, "timeout", 3000),
     retryAttempts |-> NumberOr(options, "retryAttempts", 3),
     isDefault |-> "isDefault" \in DOMAIN options /\ options.isDefault]

\* a helper without the trailing ...options
createCbxPos89eConfigByOr(name, connectionString, options, now) ==
    cbxDefaults(name, connectionString, options, now)

\* createCbxPos89eConfig(name, connectionString, options): the object
\* literal ends with ...options, which writes every property of options
\* over the one computed with ||
createCbxPos89eConfig(name, connectionString, options, now) ==
    LET written == cbxDefaults(name, connectionString, options, now)
    IN  [f \in DOMAIN written \cup DOMAIN options |->
            IF f \in DOMAIN options THEN options[f] ELSE written[f]]

\* the properties options may carry and the two values tried for each; the
\* first is the falsy one where the type has one
OptionValues ==
    [id |-> <<"", "p1">>,
     connectionType |-> <<"network", "serial">>,
     paperSize |-> <<"58mm", "80mm">>,
     characterSet |-> <<"", "ASCII">>,
     timeout |-> <<Num(0), Num(5000)>>,
     retryAttempts |-> <<Num(0), Num(5)>>,
     isDefault |-> <<FALSE, TRUE>>]

UtilOptions ==
    { [f \in fields |-> OptionValues[f][k]] :
        fields \in SUBSET DOMAIN OptionValues, k \in 1..2 }

UtilNames == {"Kitchen", "Bar"}

UtilConnections == { <<"C", "B", "X">>, <<"h">> }

CreateCbxPos89eConfig(name, connectionString, options, now) ==
    /\ scall.op = "none"
    /\ scall' = [NoServiceCall EXCEPT
                   !.op = "createCbxPos89eConfig",
                   !.arg = [name |-> name,
                            connectionString |-> connectionString,
                            options |-> options, now |-> now],
                   !.result = "ok",
                   !.value = [config |->
                                 createCbxPos89eConfig(name, connectionString,
                                                       options, now)]]
    /\ UNCHANGED <<driverVars, fac, registry, rcall, disc, service, store>>

InitUtils ==
    /\ isConnected = FALSE
    /\ status = OFFLINE
    /\ lastJobId = 0
    /\ listeners = FALSE
    /\ events = <<>>
    /\ calls = <<>>
    /\ fac = NoFac
    /\ UpperInit

NextUtils ==
    \E name \in UtilNames, connectionString \in UtilConnections,
       options \in UtilOptions, now \in 1..2 :
        CreateCbxPos89eConfig(name, connectionString, options, now)

SpecUtils == InitUtils /\ [][NextUtils]_vars

\* what the helper yields when options carries nothing
CbxTemplate(name, connectionString, now) ==
    [id |-> GeneratedId(now), name |-> name, type |-> "cbx_pos_89e",
     connectionType |-> "usb", connectionString |-> connectionString,
     paperSize |-> "80mm", characterSet |-> "UTF-8", timeout |-> Num(3000),
     retryAttempts |-> Num(3), isDefault |-> FALSE]

\* C29: the config made has, for every property options carries, the value
\* options gives it (a timeout of 0 and a retry count of 0 included), and
\* for every other property the value of the template: the given name and
\* connection string, type cbx_pos_89e, usb, 80mm, UTF-8, timeout 3000,
\* 3 retries, not default.
C29_TemplateAndOverrides ==
    scall.op = "createCbxPos89eConfig" =>
        LET options == scall.arg.options
            config == scall.value.config
            template == CbxTemplate(scall.arg.name,
                                    scall.arg.connectionString, scall.arg.now)
        IN  /\ DOMAIN config = DOMAIN template
            /\ \A f \in DOMAIN config :
                  config[f] = IF f \in DOMAIN options THEN options[f]
                              ELSE template[f]

\* options carried a timeout of 0 and a retry count of 0, and the config
\* made has them
C29_Witness ==
    /\ scall.op = "createCbxPos89eConfig"
    /\ DOMAIN scall.arg.options = {"timeout", "retryAttempts"}
    /\ scall.value.config.timeout = Num(0)
    /\ scall.value.config.retryAttempts = Num(0)
    /\ scall.value.config.paperSize = "80mm"

----------------------------------------------------------------------------
(* Driver: translation of the content (specification Spec) *)

\* the device command an item of the content stands for
DeviceCommand(type) ==
    CASE type = "text" -> "text"
      [] type = "line" -> "text"
      [] type = "feed" -> "text"
      [] type = "barcode" -> "barCode"
      [] type = "qrcode" -> "qrCode"
      [] type = "image" -> "image"
      [] type = "cut" -> "cut"

\* the commands of a job whose printData has been handed to the device: the
\* printData entries, then the cut print() adds unless paperCut is false
JobCommands(c) ==
    calls[c].sent \o (IF calls[c].cut THEN <<[type |-> "cut", n |-> 0]>>
                      ELSE <<>>)

RECURSIVE Grouped(_, _)
\* the commands are one non-empty group of commands per item, in the order
\* of the items, each group made of the command its item stands for
Grouped(content, commands) ==
    IF content = <<>> THEN commands = <<>>
    ELSE \E k \in 1..Len(commands) :
            /\ \A i \in 1..k :
                  commands[i].type = DeviceCommand(Head(content).type)
            /\ Grouped(Tail(content), SubSeq(commands, k + 1, Len(commands)))

\* C30: the commands of a job are, item by item and in the order of the
\* content, one group of commands for every item; a cut item has its cut
\* command at its place.
C30_EveryItemTranslated ==
    \A c \in 1..Len(calls) :
        (calls[c].op = "print" /\ calls[c].pc = "posPrint") =>
            Grouped(calls[c].content, JobCommands(c))

----------------------------------------------------------------------------
(* Driver: what follows the content (specification Spec) *)

\* the await a print() with these options is at when it completes
LastAwait(rec) ==
    IF rec.drawer THEN "drawer" ELSE IF rec.cut THEN "cut" ELSE "posPrint"

\* job_completed has been emitted for the job of call c
Completed(c, evs) ==
    \E i \in 1..Len(evs) :
        evs[i].type = "job_completed" /\ evs[i].job = calls[c].job

\* one step of print() call c from an await after the content was handed
\* over: it goes on to cutPaper only from the content and only when paperCut
\* is not false, to openCashDrawer only when requested and from the cut (from
\* the content when there is no cut), and completes only from the last of
\* these; job_completed is emitted by the completing step and not before
PostPrintStep(c) ==
    LET before == calls[c]
        after == calls'[c]
    IN  (before.op = "print" /\ before.pc \in {"posPrint", "cut", "drawer"}) =>
            /\ ~Completed(c, events)
            /\ after.pc = "cut" /\ before.pc # "cut" =>
                  before.pc = "posPrint" /\ before.cut
            /\ after.pc = "drawer" /\ before.pc # "drawer" =>
                  /\ before.drawer
                  /\ before.pc = (IF before.cut THEN "cut" ELSE "posPrint")
            /\ after.pc = "done" /\ after.result = "ok" =>
                  /\ before.pc = LastAwait(before)
                  /\ status' = IDLE
                  /\ events'[Len(events')] =
                        Ev("job_completed", c, "-", "-", before.job, NoErr)

\* C31: in a print() that succeeds the content is handed over first, then
\* cutPaper runs unless paperCut is false, then openCashDrawer runs if and
\* only if it was requested, and only then the status returns to Idle and
\* job_completed is emitted.
C31_PostPrintOrder ==
    [][\A c \in 1..Len(calls) : PostPrintStep(c)]_vars

\* a print() with paperCut not false and the drawer requested is awaiting
\* the drawer, its third command, and has not completed
C31_Witness ==
    \E c \in 1..Len(calls) :
        /\ calls[c].op = "print"
        /\ calls[c].pc = "drawer"
        /\ calls[c].cut
        /\ calls[c].io = 3
        /\ ~Completed(c, events)

----------------------------------------------------------------------------
(* Registry: updates that are refused (specification SpecRegistry) *)

\* the config the last updatePrinterConfig call has merged
MergedUpdate ==
    Merged(MapGet(rcall.before.configs, rcall.id), rcall.arg, rcall.id)

\* C32: updatePrinterConfig on an id without a stored config raises
\* PRINTER_NOT_FOUND, and one whose merged config the factory does not
\* accept raises INVALID_CONFIG; in both cases the registry is as before the
\* call: the same driver objects in the state they were in, the same stored
\* configs, the same default, no driver constructed and no event emitted.
C32_RefusedUpdateChangesNothing ==
    Did("updatePrinterConfig") =>
        IF ~MapHas(rcall.before.configs, rcall.id)
        THEN rcall.result = "PRINTER_NOT_FOUND" /\ registry = rcall.before
        ELSE ~validateConfig(MergedUpdate) =>
                /\ rcall.result = "INVALID_CONFIG"
                /\ rcall.cause = "invalid"
                /\ registry = rcall.before

\* an update to 44mm paper of a connected cbx_pos_89e driver was refused
C32_Witness ==
    /\ Did("updatePrinterConfig")
    /\ MapHas(rcall.before.printers, rcall.id)
    /\ MapGet(rcall.before.printers, rcall.id).isConnected
    /\ rcall.arg = [paperSize |-> "44mm"]
    /\ rcall.result = "INVALID_CONFIG"
    /\ MapGet(registry.printers, rcall.id).isConnected

----------------------------------------------------------------------------
(* Driver: a connect() the device does not answer (specification Spec) *)

\* C33: a connect() whose probe of the device answers false or throws
\* raises CONNECTION_FAILED and leaves the driver not connected and
\* Offline, whether or not an 'error' listener is attached.
C33_ConnectionFailedReachesCaller ==
    \A c \in ConnectCalls :
        (IsSettled(c) /\ calls[c].cause \in {"false", "throws"}) =>
            /\ calls[c].result = "CONNECTION_FAILED"
            /\ ~calls[c].cAfter
            /\ calls[c].sAfter = OFFLINE

----------------------------------------------------------------------------
(* Service: listPrinters (specification SpecService) *)

\* C34: listPrinters() returns, for every registered driver and in the
\* order of registration, its id, its current status and whether it is
\* connected, and leaves every driver and the registry as they were.
C34_ListedStatusIsCurrent ==
    (scall.op = "listPrinters" /\ scall.result = "ok") =>
        LET printers == MapValues(registry.printers)
            listed == scall.value.printers
        IN  /\ registry = scall.registry
            /\ Len(listed) = Len(printers)
            /\ \A i \in 1..Len(printers) :
                  /\ listed[i].id = printers[i].id
                  /\ listed[i].status = printers[i].status
                  /\ listed[i].isConnected = printers[i].isConnected

----------------------------------------------------------------------------
(* Driver: job sequence numbers (specification Spec) *)

\* the print() calls up to call c that were not rejected for want of a
\* connection
Accepted(c) ==
    {d \in PrintCalls : d <= c /\ calls[d].result # "PRINTER_OFFLINE"}

\* C35: a print() rejected because the driver is not connected takes no
\* sequence number: the counter is the number of jobs accepted, and every
\* accepted job has the number it would have without the rejected calls.
C35_RejectedPrintTakesNoJobId ==
    /\ lastJobId = Cardinality(Accepted(Len(calls)))
    /\ \A c \in Accepted(Len(calls)) : calls[c].job = Cardinality(Accepted(c))

----------------------------------------------------------------------------
(* Driver: connectivity and status (specification Spec) *)

\* C36: in every state between the steps of the driver's calls the driver
\* is connected if and only if its status is not Offline.
C36_ConnectedIffNotOffline ==
    isConnected <=> status # OFFLINE

----------------------------------------------------------------------------
(* Registry: the two indexes (specification SpecRegistry) *)

\* no registered driver has been disposed of: dispose() removes the
\* forwarders every registered driver is given
NoneDisposed ==
    \A i \in 1..Len(registry.printers) :
        registry.printers[i].value.listeners > 0

\* the stored config of the id last updated is the config its driver was
\* made with: an update that failed has stored nothing, so unless the merged
\* config equals the stored one the driver is the object it was before
StoredIsHeld ==
    (/\ Did("updatePrinterConfig")
     /\ rcall.result # "ok"
     /\ MapHas(rcall.before.configs, rcall.id)
     /\ MapHas(rcall.before.printers, rcall.id)
     /\ MergedUpdate # MapGet(rcall.before.configs, rcall.id)) =>
        /\ MapHas(registry.printers, rcall.id)
        /\ MapGet(registry.printers, rcall.id).obj =
              MapGet(rcall.before.printers, rcall.id).obj

\* C37: after every registry call, the failing ones included, the driver
\* index and the config index have the same keys, no registered driver is a
\* disposed one, and the stored config of a driver is the one it holds.
C37_IndexesAgree ==
    /\ MapKeySet(registry.printers) = MapKeySet(registry.configs)
    /\ NoneDisposed
    /\ StoredIsHeld

----------------------------------------------------------------------------
(* Service: store and registry (specification SpecService) *)

\* the store and the registry hold the same configs under the same ids and
\* name the same default
Agree(st, reg) ==
    /\ MapKeySet(st.configCache) = MapKeySet(reg.printers)
    /\ MapKeySet(st.configCache) = MapKeySet(reg.configs)
    /\ \A id \in MapKeySet(st.configCache) :
          MapGet(st.configCache, id) = MapGet(reg.configs, id)
    /\ st.defaultConfigId = reg.defaultPrinterId

\* C38: an addPrinter or removePrinter call on an initialized service whose
\* store and registry agree leaves them agreeing, and one that fails leaves
\* the configs and the default of the store and the whole registry as they
\* were.
C38_StoreAndRegistryAgree ==
    (scall.op \in {"addPrinter", "removePrinter"}
       /\ scall.service.initialized) =>
        /\ Agree(scall.store, scall.registry) => Agree(store, registry)
        /\ scall.result # "ok" =>
              /\ store.configCache = scall.store.configCache
              /\ store.defaultConfigId = scall.store.defaultConfigId
              /\ registry = scall.registry

----------------------------------------------------------------------------
(* SpecPeriods : the service through more than one initialized period:     *)
(*               initialize(), shutdown(), importConfigurations() and      *)
(*               print() in any order, one call more than SpecService      *)
(*               makes, so that a print of the second period is reached.   *)

\* number of calls made on the service in one behaviour of SpecPeriods
MaxPeriodOps == 4

PeriodInitialize(mkdirOk, ctorOk) ==
    ServiceStepWithin(MaxPeriodOps, "initialize", [ctorOk |-> ctorOk],
                      initialize(service, registry, store, mkdirOk, ctorOk,
                                 scall.n + 1))

PeriodShutdown(failing, writeOk) ==
    ServiceStepWithin(MaxPeriodOps, "shutdown", NoArg,
                      shutdown(service, registry, store, failing, writeOk,
                               scall.n + 1))

PeriodPrint(printerId, answer, printed) ==
    ServiceStepWithin(MaxPeriodOps, "print", [id |-> printerId],
                      print(service, registry, store, printerId, answer,
                            printed, scall.n + 1))

PeriodImport(data, writeOk, failing, ctorOk) ==
    ServiceStepWithin(MaxPeriodOps, "importConfigurations", data,
                      importConfigurations(service, registry, store, data,
                                           writeOk, failing, ctorOk,
                                           scall.n + 1))

NextPeriods ==
    \/ \E mkdirOk \in Outcomes(~service.initialized, BOOLEAN, TRUE) :
          PeriodInitialize(mkdirOk, TRUE)
    \/ \E writeOk \in Outcomes(service.initialized, BOOLEAN, TRUE) :
          PeriodShutdown({}, writeOk)
    \/ \E printerId \in ServiceIds : \E in \in PrintInputs(printerId) :
          PeriodPrint(printerId, in[1], in[2])
    \/ \E data \in ImportData :
          \E writeOk \in Outcomes(service.initialized /\ data.format = "json"
                                    /\ allValid(data.configurations),
                                  BOOLEAN, TRUE) :
             PeriodImport(data, writeOk, {}, TRUE)

SpecPeriods == InitService /\ [][NextPeriods]_vars

\* the events emitted on the service during the last call
NewlyHeard ==
    SubSeq(service.stream, Len(scall.service.stream) + 1, Len(service.stream))

\* the calls made so far include a shutdown() of an initialized service
\* that ran to its end
SecondPeriod ==
    \E i \in 1..Len(service.stream) : service.stream[i].type = "service_shutdown"

\* C39: in every initialized period of the service, the first one and the
\* ones that follow a shutdown() or an importConfigurations(), the events
\* the registered driver emits during a print are emitted on the service
\* once each, in the order of emission.
C39_ForwardingInEveryPeriod ==
    (scall.op = "print" /\ scall.service.initialized) =>
        NewlyHeard = NewlyEmitted

----------------------------------------------------------------------------
(* SpecStartup : initialize() cut at its awaits, so that calls made on the *)
(*               same service overlap.  scall.n counts the calls begun and *)
(*               scall.steps is the log of the steps they have made, each  *)
(*               with the number of its call; the position of a call, the  *)
(*               configs it has loaded and its place in the loop are read  *)
(*               from the log.                                             *)

\* number of initialize() calls made in one behaviour of SpecStartup
MaxInitializeCalls == 2

\* a step of initialize() call k: "begin" passes the guard and starts
\* configManager.initialize(), "returned" is the early return, "store" the
\* end of configManager.initialize() and the loadAllConfigs() that follows
\* it, "register" one turn of the loop, "flag" the statements after the
\* loop, "failed" the catch
InitStep(k, step, configs, id, result) ==
    [call |-> k, step |-> step, configs |-> configs, id |-> id,
     result |-> result]

\* the steps call k has made
StepsOf(log, k) == LET mine(s) == s.call = k IN SelectSeq(log, mine)

\* call k has begun and has not settled
Awaiting(log, k) ==
    /\ StepsOf(log, k) # <<>>
    /\ StepsOf(log, k)[Len(StepsOf(log, k))].step
          \in {"begin", "store", "register"}

\* call k awaits configManager.initialize()
AwaitingStore(log, k) ==
    /\ StepsOf(log, k) # <<>>
    /\ StepsOf(log, k)[Len(StepsOf(log, k))].step = "begin"

\* call k is in or past its loop
Loaded(log, k) ==
    /\ Awaiting(log, k)
    /\ ~AwaitingStore(log, k)

\* const configs = await this.configManager.loadAllConfigs(), of call k
ConfigsOf(log, k) == StepsOf(log, k)[2].configs

\* the configs call k has still to register
Remaining(log, k) ==
    SubSeq(ConfigsOf(log, k), Len(StepsOf(log, k)) - 1,
           Len(ConfigsOf(log, k)))

\* the calls begun
Begun40(log) == {s.call : s \in {log[i] : i \in 1..Len(log)}}

\* the log after a step, and the state the step leaves
Stepped(s, svc, reg, st) ==
    LET log == Append(scall.steps, s)
    IN  /\ scall' = [scall EXCEPT
                       !.steps = log,
                       !.result = IF \E k \in Begun40(log) : Awaiting(log, k)
                                  THEN "pending" ELSE "ok"]
        /\ service' = svc
        /\ registry' = reg
        /\ store' = st
        /\ UNCHANGED <<driverVars, fac, rcall, disc>>

\* initialize() up to its first await: if (this.initialized) return, else
\* configManager.initialize() is called and awaited
InitializeBegin ==
    /\ scall.n < MaxInitializeCalls
    /\ LET k == scall.n + 1
           s == InitStep(k, IF alreadyInitialized(service) THEN "returned"
                            ELSE "begin", <<>>, Null, "ok")
           log == Append(scall.steps, s)
       IN  scall' = [n |-> k, op |-> "initialize", arg |-> NoArg,
                     result |-> IF \E c \in Begun40(log) : Awaiting(log, c)
                                THEN "pending" ELSE "ok",
                     cause |-> NoErr, value |-> NoArg, touched |-> {},
                     steps |-> log,
                     service |-> IF k = 1 THEN service ELSE scall.service,
                     registry |-> IF k = 1 THEN registry ELSE scall.registry,
                     store |-> IF k = 1 THEN store ELSE scall.store]
    /\ UNCHANGED <<driverVars, fac, rcall, disc, service, registry, store>>

\* await configManager.initialize() settles for call k, and on success
\* loadAllConfigs() reads the cache; mkdirOk = FALSE when the directory
\* cannot be made
InitializeStore(k, mkdirOk) ==
    /\ AwaitingStore(scall.steps, k)
    /\ LET loaded == configManagerInitialize(store, mkdirOk)
       IN  IF loaded.result # "ok"
           THEN Stepped(InitStep(k, "failed", <<>>, Null, "INVALID_CONFIG"),
                        service, registry, loaded.store)
           ELSE Stepped(InitStep(k, "store", loadAllConfigs(loaded.store),
                                 Null, "ok"),
                        service, registry, loaded.store)

\* one turn of the loop of call k: try { await registerPrinter(config) }
\* catch { console.warn(...) }
InitializeRegister(k) ==
    /\ Loaded(scall.steps, k)
    /\ Remaining(scall.steps, k) # <<>>
    /\ LET config == Head(Remaining(scall.steps, k))
           out == registerPrinter(registry, config, TRUE, k)
       IN  Stepped(InitStep(k, "register", <<>>, config.id,
                            IF out.result = "ok" THEN "ok" ELSE out.cause),
                   heard(service, registry, out.reg), out.reg, store)

\* the statements of call k after the loop: this.initialized = true;
\* this.emit('service_initialized')
InitializeFlag(k) ==
    /\ Loaded(scall.steps, k)
    /\ Remaining(scall.steps, k) = <<>>
    /\ Stepped(InitStep(k, "flag", <<>>, Null, "ok"),
               [service EXCEPT
                  !.initialized = TRUE,
                  !.stream = @ \o <<ServiceEvent("service_initialized", Null,
                                                 k)>>],
               registry, store)

NextStartup ==
    \/ InitializeBegin
    \/ \E k \in 1..MaxInitializeCalls : \E mkdirOk \in BOOLEAN :
          InitializeStore(k, mkdirOk)
    \/ \E k \in 1..MaxInitializeCalls : InitializeRegister(k)
    \/ \E k \in 1..MaxInitializeCalls : InitializeFlag(k)

SpecStartup == InitService /\ [][NextStartup]_vars

\* a second initialize() was called while the first awaited the config
\* store, and both have settled
OverlappedAndSettled ==
    /\ scall.op = "initialize"
    /\ scall.n >= 2
    /\ scall.result = "ok"
    /\ \E i \in 1..Len(scall.steps) :
          /\ scall.steps[i] = InitStep(2, "begin", <<>>, Null, "ok")
          /\ \A j \in 1..i : scall.steps[j].call = 1 =>
                scall.steps[j].step = "begin"

\* how many events of the type, about the printer, the stream carries
Times(stream, type, id) ==
    Cardinality({i \in 1..Len(stream) :
                   stream[i].type = type /\ stream[i].printerId = id})

\* C40: when a second initialize() is called while the first awaits the
\* config store and the service ends up initialized, it is initialized
\* once: every persisted config that registers on its own is registered
\* exactly once, no registerPrinter is attempted for an id that is already
\* registered, and service_initialized is emitted exactly once.
C40_OverlappingInitializeOnce ==
    (OverlappedAndSettled /\ service.initialized) =>
        /\ \A i \in 1..Len(store.file.configurations) :
              LET config == store.file.configurations[i]
              IN  RegistersAlone(config, TRUE) =>
                     /\ config.id \in Registered(registry)
                     /\ Times(registry.stream, "printer_registered",
                              config.id) = 1
        /\ \A i \in 1..Len(scall.steps) : scall.steps[i].result # "exists"
        /\ Times(service.stream, "service_initialized", Null) = 1

====
